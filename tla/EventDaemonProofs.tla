------------------------- MODULE EventDaemonProofs -------------------------
(***************************************************************************)
(* Proofs about EventDaemon, for any finite set of sources and callers,    *)
(* any queue size and any number of events, runs and stops.                *)
(***************************************************************************)
EXTENDS EventDaemonRefinement, FiniteSetTheorems, SequenceTheorems, TLAPS

-----------------------------------------------------------------------------
(* The inductive invariant.                                                *)

\* Every event ever put into the queue, in the order of the puts.
History == taken \o queue

\* join counts what is queued and what the loop holds; the loop holds an event
\* exactly while it dispatches, and that one is the last it took.
LoopState ==
    /\ unfinished = Len(queue) + Len(current)
    /\ loop = "dispatching" <=> current # <<>>
    /\ current # <<>> => taken # <<>> /\ current[1] = taken[Len(taken)]

\* The tasks are there only while self._tasks or run_until_idle knows of them.
RunState ==
    /\ ~listed => \A s \in Sources : ~Alive(s)
    /\ ~listed /\ runner \in {"idle", "serving", "stopping"} => ~Alive(Loop)
    /\ runner \in {"joining", "joined", "timed_out"} => ~listed
    /\ stopSet /\ listed => Loop \in cancelled \/ ~Alive(Loop)

\* Nothing is put into the queue or dropped that was not emitted, nothing
\* twice, and an event that is queued or dispatched has not been dropped.
PutOnce ==
    /\ IsInjective(History)
    /\ Range(History) \cup lost \subseteq Emitted
    /\ lost \cap (Range(queue) \cup Range(current)) = {}

\* The event of a suspended put is the producer's last and is nowhere else.
PutWaits ==
    \A p \in Putting : sent[p] > 0 /\ Latest(p) \notin Range(History) \cup lost

\* Whatever was emitted is in the history, dropped or waiting in its put, and
\* whatever the producer emitted before an event in the history was dropped or
\* is there before it.
Accounted ==
    /\ \A e \in Emitted :
           \/ e \in Range(History) \cup lost
           \/ e[1] \in Putting /\ e = Latest(e[1])
    /\ \A j \in DOMAIN History : \A n \in 1..(History[j][2] - 1) :
           LET earlier == <<History[j][1], n>> IN
           earlier \in lost \/ \E i \in 1..(j - 1) : History[i] = earlier

Counts == Received = Cardinality(Putting) + unfinished
                     + stats.dispatched + stats.failed + Cardinality(lost)

IInv == TypeOK /\ LoopState /\ RunState /\ PutOnce /\ PutWaits /\ Accounted /\ Counts

-----------------------------------------------------------------------------
(* Lemmas about sequences.                                                 *)

\* Append adds one element to the range and keeps injectivity if it is new.
LEMMA AppendRange ==
    ASSUME NEW S, NEW s \in Seq(S), NEW e \in S
    PROVE  /\ Range(Append(s, e)) = Range(s) \cup {e}
           /\ IsInjective(s) /\ e \notin Range(s) => IsInjective(Append(s, e))
           /\ Append(s, e) \in Seq(S) /\ Len(Append(s, e)) = Len(s) + 1
<1>1. /\ Append(s, e) \in Seq(S) /\ Len(Append(s, e)) = Len(s) + 1
      /\ DOMAIN s = 1..Len(s) /\ DOMAIN Append(s, e) = 1..(Len(s) + 1)
      /\ \A i \in 1..Len(s) : Append(s, e)[i] = s[i]
      /\ Append(s, e)[Len(s) + 1] = e
      /\ Len(s) \in Nat
  BY AppendProperties, LenProperties
<1>2. Range(Append(s, e)) = Range(s) \cup {e}
  BY <1>1 DEF Range
<1>3. ASSUME IsInjective(s), e \notin Range(s)
      PROVE  IsInjective(Append(s, e))
  BY <1>1, <1>3 DEF IsInjective, Range
<1> QED
  BY <1>1, <1>2, <1>3

\* Putting appends to the history, taking leaves it alone.
LEMMA ConcatAppend ==
    ASSUME NEW S, NEW s \in Seq(S), NEW t \in Seq(S), NEW e \in S
    PROVE  s \o Append(t, e) = Append(s \o t, e)
<1> DEFINE u == s \o Append(t, e)
           v == Append(s \o t, e)
<1>1. u \in Seq(S) /\ v \in Seq(S)
  BY ConcatProperties, AppendProperties
<1>2. Len(u) = Len(v)
  BY ConcatProperties, AppendProperties, LenProperties
<1>3. ASSUME NEW i \in 1..Len(u) PROVE u[i] = v[i]
  <2>1. Len(s) \in Nat /\ Len(t) \in Nat /\ Len(u) = Len(s) + Len(t) + 1
    BY ConcatProperties, AppendProperties, LenProperties
  <2>2. s \o t \in Seq(S) /\ Len(s \o t) = Len(s) + Len(t)
    BY ConcatProperties
  <2>3. u[i] = IF i <= Len(s) THEN s[i] ELSE Append(t, e)[i - Len(s)]
    BY <2>1, AppendProperties, ConcatProperties
  <2>4. v[i] = IF i <= Len(s) + Len(t) THEN (s \o t)[i] ELSE e
    BY <2>1, <2>2, AppendProperties
  <2>5. CASE i <= Len(s)
    BY <2>1, <2>3, <2>4, <2>5, ConcatProperties
  <2>6. CASE i > Len(s) /\ i <= Len(s) + Len(t)
    <3>1. i - Len(s) \in 1..Len(t)
      BY <2>1, <2>6
    <3>2. Append(t, e)[i - Len(s)] = t[i - Len(s)]
      BY <3>1, AppendProperties
    <3>3. (s \o t)[i] = t[i - Len(s)]
      BY <2>1, <2>6, ConcatProperties
    <3> QED
      BY <2>1, <2>3, <2>4, <2>6, <3>2, <3>3
  <2>7. CASE i = Len(s) + Len(t) + 1
    BY <2>1, <2>3, <2>4, <2>7, AppendProperties
  <2> QED
    BY <2>1, <2>5, <2>6, <2>7
<1> QED
  BY <1>1, <1>2, <1>3, SeqEqual

\* Taking the first event of the queue leaves the history as it is.
LEMMA ConcatShift ==
    ASSUME NEW S, NEW s \in Seq(S), NEW t \in Seq(S), t # <<>>
    PROVE  Append(s, Head(t)) \o Tail(t) = s \o t
<1> DEFINE u == Append(s, Head(t)) \o Tail(t)
           v == s \o t
<1>1. u \in Seq(S) /\ v \in Seq(S)
  BY ConcatProperties, AppendProperties, HeadTailProperties
<1>2. Len(u) = Len(v)
  BY ConcatProperties, AppendProperties, HeadTailProperties, LenProperties
<1>3. ASSUME NEW i \in 1..Len(u) PROVE u[i] = v[i]
  BY ConcatProperties, AppendProperties, HeadTailProperties, LenProperties
<1> QED
  BY <1>1, <1>2, <1>3, SeqEqual

-----------------------------------------------------------------------------
(* Type correctness.  It needs the rest of the invariant where a suspended *)
(* put goes on: its event is one that was emitted.                         *)

\* The initial values have their types.
LEMMA InitType == Init => TypeOK
<1> SUFFICES ASSUME Init PROVE TypeOK
  OBVIOUS
<1>1. /\ queue \in Seq(Events) /\ Len(queue) <= QueueMax
      /\ current \in Seq(Events) /\ Len(current) <= 1
      /\ taken \in Seq(Events)
  BY EmptySeq, ConstantsAssumption DEF Init
<1>2. ppc \in [Producers -> ProducerSteps]
  BY DEF Init, ProducerSteps
<1>3. sent \in [Producers -> 0..MaxEmits] /\ srcStop \in [Sources -> BOOLEAN]
  BY ConstantsAssumption DEF Init
<1>4. runs \in 0..MaxRuns /\ stops \in 0..MaxStops
  BY ConstantsAssumption DEF Init
<1> QED
  BY <1>1, <1>2, <1>3, <1>4 DEF Init, TypeOK, LoopSteps

\* The producers' steps write sent, ppc, the queue and what was lost.
ProducerTypes ==
    /\ sent \in [Producers -> 0..MaxEmits]
    /\ ppc \in [Producers -> ProducerSteps]
    /\ queue \in Seq(Events) /\ Len(queue) <= QueueMax
    /\ unfinished \in Nat
    /\ lost \subseteq Events

\* A step of a producer or of a source writes nothing else.
LEMMA ProducerFrame ==
    ASSUME TypeOK, ProducerTypes', UNCHANGED <<loopVars, runVars, cancelled>>
    PROVE  TypeOK'
BY DEF TypeOK, ProducerTypes, loopVars, runVars

\* put_nowait appends one event, if there is room.
LEMMA EnqueueType ==
    ASSUME TypeOK, NEW e \in Events, Len(queue) < QueueMax, Enqueue(e)
    PROVE  queue' \in Seq(Events) /\ Len(queue') <= QueueMax /\ unfinished' \in Nat
<1>1. queue \in Seq(Events) /\ unfinished \in Nat
  BY DEF TypeOK
<1>2. /\ Append(queue, e) \in Seq(Events)
      /\ Len(Append(queue, e)) = Len(queue) + 1
      /\ Len(queue) \in Nat
  BY <1>1, AppendProperties, LenProperties
<1> QED
  BY <1>1, <1>2, ConstantsAssumption DEF Enqueue

\* Where a producer goes on after an event.
LEMMA AfterEmitType == \A p \in Producers : AfterEmit(p) \in {"waiting", "ended"}
BY DEF AfterEmit

\* The event of a suspended put is an event.
LEMMA LatestType ==
    ASSUME IInv, NEW p \in Producers, ppc[p] = "putting"
    PROVE  Latest(p) \in Events
<1>1. sent[p] > 0 /\ sent[p] \in 0..MaxEmits
  BY DEF IInv, TypeOK, PutWaits, Putting
<1>2. sent[p] \in 1..MaxEmits
  BY <1>1, ConstantsAssumption
<1> QED
  BY <1>2 DEF Latest, Events

\* emit, with or without room in the queue, keeps the types.
LEMMA EmitType ==
    ASSUME IInv, NEW p \in Producers, Emit(p)
    PROVE  TypeOK'
<1>0. TypeOK
  BY DEF IInv
<1>1. sent[p] \in 0..MaxEmits /\ sent[p] < MaxEmits /\ sent' = [sent EXCEPT ![p] = sent[p] + 1]
  BY <1>0 DEF TypeOK, Emit, Counted, MayEmit
<1>2. sent[p] + 1 \in 1..MaxEmits
  BY <1>1, ConstantsAssumption
<1>3. sent' \in [Producers -> 0..MaxEmits] /\ <<p, sent'[p]>> \in Events
  BY <1>0, <1>1, <1>2 DEF TypeOK, Events
<1>4. ppc' \in [Producers -> ProducerSteps]
  BY <1>0 DEF TypeOK, Emit, PutDone, AfterEmit, ProducerSteps
<1>5. queue' \in Seq(Events) /\ Len(queue') <= QueueMax /\ unfinished' \in Nat
  <2>1. CASE Len(queue) < QueueMax
    BY <1>0, <1>3, <2>1, EnqueueType DEF Emit, PutDone
  <2>2. CASE ~(Len(queue) < QueueMax)
    BY <1>0, <2>2 DEF Emit, TypeOK, queueVars
  <2> QED
    BY <2>1, <2>2
<1>6. lost' \subseteq Events /\ UNCHANGED <<loopVars, runVars, cancelled>>
  BY <1>0 DEF Emit, Counted, TypeOK
<1> QED
  BY <1>0, <1>3, <1>4, <1>5, <1>6, ProducerFrame DEF ProducerTypes

\* A suspended put that goes on keeps the types.
LEMMA PutType ==
    ASSUME IInv, NEW p \in Producers, Put(p)
    PROVE  TypeOK'
<1>0. TypeOK
  BY DEF IInv
<1>1. queue' \in Seq(Events) /\ Len(queue') <= QueueMax /\ unfinished' \in Nat
  BY <1>0, EnqueueType, LatestType DEF Put
<1>2. ppc' \in [Producers -> ProducerSteps]
  BY <1>0 DEF TypeOK, Put, AfterEmit, ProducerSteps
<1>3. sent' \in [Producers -> 0..MaxEmits] /\ lost' \subseteq Events
      /\ UNCHANGED <<loopVars, runVars, cancelled>>
  BY <1>0 DEF Put, TypeOK
<1> QED
  BY <1>0, <1>1, <1>2, <1>3, ProducerFrame DEF ProducerTypes

\* A source that starts, ends or is cancelled keeps the types.
LEMMA SourceType ==
    ASSUME IInv, NEW s \in Sources, SourceStep(s)
    PROVE  TypeOK'
<1>0. TypeOK
  BY DEF IInv
<1>a. s \in Producers /\ s \in Tasks /\ s # Loop
  BY ConstantsAssumption DEF Producers, Tasks
<1>1. ppc' \in [Producers -> ProducerSteps]
  BY <1>0, <1>a DEF TypeOK, SourceStep, StartSource, SourceEnds, SourceCancelled,
                    AfterEmit, ProducerSteps
<1>2. lost' \subseteq Events
  BY <1>0, <1>a, LatestType DEF SourceStep, StartSource, SourceEnds, SourceCancelled, TypeOK
<1>3. sent' \in [Producers -> 0..MaxEmits] /\ UNCHANGED <<queueVars, loopVars, runVars, cancelled>>
  BY <1>0 DEF SourceStep, StartSource, SourceEnds, SourceCancelled, TypeOK
<1>4. queue' \in Seq(Events) /\ Len(queue') <= QueueMax /\ unfinished' \in Nat
  BY <1>0, <1>3 DEF TypeOK, queueVars
<1> QED
  BY <1>0, <1>1, <1>2, <1>3, <1>4, ProducerFrame DEF ProducerTypes

\* The loop's steps write the queue, the loop's own variables and what was lost.
LoopTypes ==
    /\ queue \in Seq(Events) /\ Len(queue) <= QueueMax
    /\ unfinished \in Nat
    /\ loop \in LoopSteps
    /\ current \in Seq(Events) /\ Len(current) <= 1
    /\ stats \in [dispatched : Nat, failed : Nat]
    /\ taken \in Seq(Events)
    /\ lost \subseteq Events

\* A step of the dispatch loop writes nothing else.
LEMMA LoopFrame ==
    ASSUME TypeOK, LoopTypes', UNCHANGED <<prodVars, runVars, cancelled>>
    PROVE  TypeOK'
BY DEF TypeOK, LoopTypes, prodVars, runVars

\* While the loop dispatches it holds one event, and that one is unfinished.
LEMMA Held ==
    ASSUME IInv, loop = "dispatching"
    PROVE  /\ Len(current) = 1 /\ current = <<current[1]>> /\ current[1] \in Events
           /\ Range(current) = {current[1]}
           /\ unfinished = Len(queue) + 1
<1>1. current \in Seq(Events) /\ Len(current) <= 1 /\ current # <<>> /\ queue \in Seq(Events)
      /\ unfinished = Len(queue) + Len(current)
  BY DEF IInv, TypeOK, LoopState
<1>2. Len(current) = 1
  <2>1. \A n \in Nat \ {0} : n <= 1 => n = 1
    OBVIOUS
  <2>2. Len(current) \in Nat \ {0}
    BY <1>1, EmptySeq
  <2> QED
    BY <1>1, <2>1, <2>2
<1>3. DOMAIN current = 1..1 /\ current[1] \in Events
  BY <1>1, <1>2, LenProperties, ElementOfSeq
<1>4. current = <<current[1]>>
  BY <1>1, <1>2, <1>3, SeqEqual
<1>5. Range(current) = {current[1]}
  BY <1>3 DEF Range
<1> QED
  BY <1>1, <1>2, <1>3, <1>4, <1>5

\* The steps of _dispatch_loop keep the types.
LEMMA LoopType ==
    ASSUME IInv, StartLoop \/ Get \/ LoopCancelled \/ \E ok \in BOOLEAN : DispatchEnds(ok)
    PROVE  TypeOK'
<1>0. TypeOK /\ LoopTypes /\ queue \in Seq(Events) /\ Len(queue) \in Nat
  BY LenProperties DEF IInv, TypeOK, LoopTypes
<1>e. <<>> \in Seq(Events) /\ Len(<<>>) = 0
  BY EmptySeq
<1>u. UNCHANGED <<prodVars, runVars, cancelled>>
  BY DEF StartLoop, Get, LoopCancelled, EndOfLoop, DispatchEnds, AfterDispatch
<1>1. CASE StartLoop
  <2>1. LoopTypes'
    BY <1>0, <1>1 DEF StartLoop, LoopTest, LoopTypes, LoopSteps, queueVars
  <2> QED
    BY <1>0, <1>u, <2>1, LoopFrame
<1>2. CASE Get
  <2>1. Head(queue) \in Events /\ Tail(queue) \in Seq(Events) /\ Len(Tail(queue)) = Len(queue) - 1
    BY <1>0, <1>2, HeadTailProperties DEF Get
  <2>2. Append(taken, Head(queue)) \in Seq(Events)
    BY <1>0, <2>1, AppendProperties DEF LoopTypes
  <2>3. <<Head(queue)>> \in Seq(Events) /\ Len(<<Head(queue)>>) = 1
    BY <2>1
  <2>4. LoopTypes'
    BY <1>0, <1>2, <2>1, <2>2, <2>3, ConstantsAssumption DEF Get, LoopTypes, LoopSteps
  <2> QED
    BY <1>0, <1>u, <2>4, LoopFrame
<1>3. ASSUME NEW ok \in BOOLEAN, DispatchEnds(ok)
      PROVE  TypeOK'
  <2>1. unfinished - 1 \in Nat
    BY <1>0, <1>3, Held DEF DispatchEnds, AfterDispatch
  <2>2. stats' \in [dispatched : Nat, failed : Nat]
    BY <1>0, <1>3 DEF DispatchEnds, AfterDispatch, LoopTypes
  <2>3. LoopTypes'
    BY <1>0, <1>e, <1>3, <2>1, <2>2 DEF DispatchEnds, AfterDispatch, LoopTest, LoopTypes, LoopSteps
  <2> QED
    BY <1>0, <1>u, <2>3, LoopFrame
<1>4. CASE LoopCancelled
  <2>1. unfinished' \in Nat
    BY <1>0, <1>4, Held DEF LoopCancelled, EndOfLoop, LoopTypes
  <2>2. Range(current) \subseteq Events
    BY <1>0, LenProperties, ElementOfSeq DEF Range, LoopTypes
  <2>3. LoopTypes'
    BY <1>0, <1>e, <1>4, <2>1, <2>2 DEF LoopCancelled, EndOfLoop, LoopTypes, LoopSteps
  <2> QED
    BY <1>0, <1>u, <2>3, LoopFrame
<1> QED
  BY <1>1, <1>2, <1>3, <1>4

\* run_forever, run_until_idle and stop.
RunnerStep == \/ Leave \/ RunnerStopped \/ RunnerInterrupted \/ Stop \/ StopperStopped
              \/ IdleReturns \/ \E how \in {"joined", "timed_out"} : JoinEnds(how)

\* stop, up to its gather, writes only these.
LEMMA BeginStopType ==
    ASSUME TypeOK, BeginStop
    PROVE  /\ stopSet' \in BOOLEAN /\ srcStop' \in [Sources -> BOOLEAN]
           /\ cancelled' \subseteq Tasks
BY DEF TypeOK, BeginStop, LiveTasks

\* run_forever, run_until_idle and stop keep the types.
LEMMA RunnerType ==
    ASSUME TypeOK, RunForever \/ RunUntilIdle \/ RunnerStep
    PROVE  TypeOK'
<1>a. Loop \in Tasks
  BY DEF Tasks
<1>1. CASE RunForever
  <2>1. ppc' \in [Producers -> ProducerSteps]
    BY <1>1 DEF RunForever, TypeOK, ProducerSteps
  <2>2. runs' \in 0..MaxRuns
    BY <1>1, ConstantsAssumption DEF RunForever, TypeOK
  <2> QED
    BY <1>1, <2>1, <2>2 DEF RunForever, TypeOK, queueVars, LoopSteps
<1>2. CASE RunUntilIdle
  BY <1>2, ConstantsAssumption DEF RunUntilIdle, TypeOK, prodVars, queueVars, LoopSteps
<1>3. CASE Leave
  BY <1>3, BeginStopType, ConstantsAssumption
     DEF Leave, TypeOK, taskVars, prodVars, queueVars, loopVars
<1>4. CASE RunnerStopped
  BY <1>4 DEF RunnerStopped, RunnerBack, TypeOK, taskVars, prodVars, queueVars, loopVars
<1>5. CASE RunnerInterrupted
  BY <1>5, ConstantsAssumption
     DEF RunnerInterrupted, TypeOK, taskVars, prodVars, queueVars, loopVars
<1>6. CASE Stop
  BY <1>6, BeginStopType, ConstantsAssumption
     DEF Stop, TypeOK, taskVars, prodVars, queueVars, loopVars
<1>7. CASE StopperStopped
  BY <1>7 DEF StopperStopped, TypeOK, taskVars, prodVars, queueVars, loopVars
<1>8. CASE IdleReturns
  BY <1>8 DEF IdleReturns, TypeOK, taskVars, prodVars, queueVars, loopVars
<1>9. ASSUME NEW how \in {"joined", "timed_out"}, JoinEnds(how)
      PROVE  TypeOK'
  BY <1>9, <1>a DEF JoinEnds, TypeOK, taskVars, prodVars, queueVars, loopVars
<1> QED
  BY <1>1, <1>2, <1>3, <1>4, <1>5, <1>6, <1>7, <1>8, <1>9 DEF RunnerStep

\* Every step keeps the types.
LEMMA NextType ==
    ASSUME IInv, [Next]_vars
    PROVE  TypeOK'
<1>0. TypeOK
  BY DEF IInv
<1>1. CASE UNCHANGED vars
  BY <1>0, <1>1 DEF vars, taskVars, prodVars, queueVars, loopVars, runVars, TypeOK
<1>2. CASE Next
  BY <1>0, <1>2, EmitType, PutType, SourceType, LoopType, RunnerType DEF Next, RunnerStep
<1> QED
  BY <1>1, <1>2

-----------------------------------------------------------------------------
(* The loop's own state, and what self._tasks and _stop say of the tasks.  *)

\* Every step keeps join's count equal to what is queued and in hand.
LEMMA LoopStateStep ==
    ASSUME IInv, [Next]_vars
    PROVE  LoopState'
<1>0. /\ LoopState /\ queue \in Seq(Events) /\ taken \in Seq(Events)
      /\ Len(queue) \in Nat /\ unfinished \in Nat /\ Len(<<>>) = 0
  BY LenProperties, EmptySeq DEF IInv, TypeOK
<1>a. ASSUME NEW e, Enqueue(e), UNCHANGED loopVars, e \in Events
      PROVE  LoopState'
  <2>1. Len(queue') = Len(queue) + 1
    BY <1>0, <1>a, AppendProperties DEF Enqueue
  <2>2. Len(current) \in Nat
    BY LenProperties DEF IInv, TypeOK
  <2> QED
    BY <1>0, <1>a, <2>1, <2>2 DEF LoopState, loopVars, Enqueue
<1>b. ASSUME UNCHANGED <<queueVars, loopVars>>
      PROVE  LoopState'
  BY <1>0, <1>b DEF LoopState, queueVars, loopVars
<1>1. ASSUME NEW p \in Producers, Emit(p)
      PROVE  LoopState'
  <2>1. sent' = [sent EXCEPT ![p] = sent[p] + 1] /\ sent[p] \in 0..MaxEmits /\ sent[p] < MaxEmits
    BY <1>1 DEF IInv, TypeOK, Emit, Counted, MayEmit
  <2>2. sent[p] + 1 \in 1..MaxEmits
    BY <2>1, ConstantsAssumption
  <2>3. <<p, sent'[p]>> \in Events
    BY <2>1, <2>2 DEF IInv, TypeOK, Events
  <2> QED
    BY <1>1, <1>a, <1>b, <2>3 DEF Emit, Counted, PutDone
<1>2. ASSUME NEW p \in Producers, Put(p)
      PROVE  LoopState'
  BY <1>2, <1>a, LatestType DEF Put
<1>3. ASSUME NEW s \in Sources, SourceStep(s)
      PROVE  LoopState'
  BY <1>3, <1>b DEF SourceStep, StartSource, SourceEnds, SourceCancelled
<1>4. CASE StartLoop
  BY <1>0, <1>4 DEF StartLoop, LoopTest, LoopState, queueVars
<1>5. CASE Get
  <2>1. Head(queue) \in Events /\ Len(Tail(queue)) = Len(queue) - 1
    BY <1>0, <1>5, HeadTailProperties DEF Get
  <2>2. /\ Append(taken, Head(queue)) # <<>>
        /\ Append(taken, Head(queue))[Len(Append(taken, Head(queue)))] = Head(queue)
    BY <1>0, <2>1, AppendProperties
  <2>3. Len(<<Head(queue)>>) = 1 /\ <<Head(queue)>> # <<>> /\ <<Head(queue)>>[1] = Head(queue)
    OBVIOUS
  <2>4. unfinished = Len(queue)
    BY <1>0, <1>5 DEF Get, LoopState
  <2> QED
    BY <1>0, <1>5, <2>1, <2>2, <2>3, <2>4 DEF Get, LoopState
<1>6. CASE LoopCancelled
  BY <1>0, <1>6, Held DEF LoopCancelled, EndOfLoop, LoopState
<1>7. ASSUME NEW ok \in BOOLEAN, DispatchEnds(ok)
      PROVE  LoopState'
  BY <1>0, <1>7, Held DEF DispatchEnds, AfterDispatch, LoopTest, LoopState
<1>8. CASE RunForever
  BY <1>0, <1>8 DEF RunForever, IInv, RunState, Alive, TypeOK, LoopSteps, LoopState, queueVars
<1>9. CASE RunUntilIdle
  BY <1>0, <1>9 DEF RunUntilIdle, IInv, RunState, Alive, TypeOK, LoopSteps, LoopState, queueVars
<1>10. CASE RunnerStep \/ UNCHANGED vars
  BY <1>10, <1>b DEF RunnerStep, Leave, RunnerStopped, RunnerBack, RunnerInterrupted, Stop,
                     StopperStopped, IdleReturns, JoinEnds, vars, taskVars
<1> QED
  BY <1>1, <1>2, <1>3, <1>4, <1>5, <1>6, <1>7, <1>8, <1>9, <1>10 DEF Next, RunnerStep

\* A step that ends tasks, starts none and leaves the run alone.
LEMMA FewerTasks ==
    ASSUME TypeOK, RunState, UNCHANGED <<runVars, cancelled>>,
           \A t \in Tasks : Alive(t)' => Alive(t)
    PROVE  RunState'
<1>1. Sources \subseteq Tasks /\ Loop \in Tasks
  BY DEF Tasks
<1> QED
  BY <1>1 DEF RunState, runVars

\* Every step keeps what the list of tasks and the stop flag promise.
LEMMA RunStateStep ==
    ASSUME IInv, [Next]_vars
    PROVE  RunState'
<1>0. TypeOK /\ RunState /\ LoopState
  BY DEF IInv
<1>t. /\ Sources \subseteq Producers /\ Sources \subseteq Tasks /\ Loop \in Tasks
      /\ Loop \notin Sources /\ \A t \in Tasks : t \in Sources \/ t = Loop
  BY ConstantsAssumption DEF Producers, Tasks
<1>a. ASSUME UNCHANGED <<loop, runVars, cancelled>>, NEW p \in Producers, NEW step,
             ppc' = [ppc EXCEPT ![p] = step],
             ppc[p] \in {"created", "waiting", "putting"}
      PROVE  RunState'
  <2>1. \A t \in Tasks : Alive(t)' => Alive(t)
    BY <1>0, <1>t, <1>a DEF Alive, TypeOK
  <2> QED
    BY <1>0, <1>a, <2>1, FewerTasks
<1>b. ASSUME UNCHANGED <<ppc, runVars, cancelled>>,
             loop \in {"created", "getting", "dispatching"}
      PROVE  RunState'
  <2>1. \A t \in Tasks : Alive(t)' => Alive(t)
    BY <1>b DEF Alive
  <2> QED
    BY <1>0, <1>b, <2>1, FewerTasks
<1>1. ASSUME NEW p \in Producers, Emit(p)
      PROVE  RunState'
  <2>1. ppc[p] \in {"created", "waiting", "putting"} /\ UNCHANGED <<loop, runVars, cancelled>>
    BY <1>1 DEF Emit, Counted, MayEmit, loopVars
  <2>2. \E step : ppc' = [ppc EXCEPT ![p] = step]
    BY <1>1 DEF Emit, PutDone
  <2> QED
    BY <2>1, <2>2, <1>a
<1>2. ASSUME NEW p \in Producers, Put(p)
      PROVE  RunState'
  BY <1>2, <1>a DEF Put, loopVars
<1>3. ASSUME NEW s \in Sources, SourceStep(s)
      PROVE  RunState'
  <2>1. /\ ppc[s] \in {"created", "waiting", "putting"} /\ UNCHANGED <<loop, runVars, cancelled>>
        /\ s \in Producers
    BY <1>3, <1>t DEF SourceStep, StartSource, SourceEnds, SourceCancelled, Alive, loopVars
  <2>2. \E step : ppc' = [ppc EXCEPT ![s] = step]
    BY <1>3 DEF SourceStep, StartSource, SourceEnds, SourceCancelled
  <2> QED
    BY <2>1, <2>2, <1>a
<1>4. CASE StartLoop \/ Get \/ \E ok \in BOOLEAN : DispatchEnds(ok)
  BY <1>4, <1>b DEF StartLoop, Get, DispatchEnds, AfterDispatch, prodVars
<1>5. CASE LoopCancelled
  BY <1>5, <1>b DEF LoopCancelled, EndOfLoop, Alive, prodVars
<1>6. CASE RunForever
  BY <1>6 DEF RunForever, RunState
<1>7. CASE RunUntilIdle
  BY <1>0, <1>7, <1>t DEF RunUntilIdle, RunState, Alive, prodVars
<1>c. ASSUME BeginStop, UNCHANGED <<ppc, loop, listed>>,
             runner' \in {"serving", "stopping", runner},
             runner' # runner => runner = "serving"
      PROVE  RunState'
  <2>1. \A t \in Tasks : Alive(t)' <=> Alive(t)
    BY <1>c DEF Alive
  <2>2. listed => Loop \in cancelled' \/ ~Alive(Loop)
    BY <1>c, <1>t DEF BeginStop, LiveTasks
  <2> QED
    BY <1>0, <1>c, <1>t, <2>1, <2>2 DEF RunState, TypeOK
<1>8. CASE Leave
  BY <1>8, <1>c DEF Leave, taskVars, prodVars, loopVars
<1>9. CASE Stop
  BY <1>9, <1>c DEF Stop, taskVars, prodVars, loopVars
<1>d. ASSUME UNCHANGED <<ppc, loop>>
      PROVE  \A t \in Tasks : Alive(t)' <=> Alive(t)
  BY <1>d DEF Alive
<1>10. CASE RunnerStopped
  <2>1. \A t \in Tasks : ~Alive(t)'
    BY <1>10, <1>d DEF RunnerStopped, RunnerBack, Gathered, LiveTasks, taskVars, prodVars, loopVars
  <2> QED
    BY <1>10, <1>t, <2>1 DEF RunnerStopped, RunnerBack, RunState
<1>11. CASE StopperStopped
  <2>1. \A t \in Tasks : ~Alive(t)'
    BY <1>11, <1>d DEF StopperStopped, Gathered, LiveTasks, taskVars, prodVars, loopVars
  <2> QED
    BY <1>11, <1>t, <2>1 DEF StopperStopped, RunState
<1>12. CASE RunnerInterrupted
  <2>1. \A t \in Tasks : Alive(t)' <=> Alive(t)
    BY <1>12, <1>d DEF RunnerInterrupted, taskVars, prodVars, loopVars
  <2> QED
    BY <1>0, <1>12, <1>t, <2>1 DEF RunnerInterrupted, RunState
<1>13. ASSUME NEW how \in {"joined", "timed_out"}, JoinEnds(how)
       PROVE  RunState'
  <2>1. \A t \in Tasks : Alive(t)' <=> Alive(t)
    BY <1>13, <1>d DEF JoinEnds, taskVars, prodVars, loopVars
  <2> QED
    BY <1>0, <1>13, <1>t, <2>1 DEF JoinEnds, RunState
<1>14. CASE IdleReturns
  <2>1. \A t \in Tasks : Alive(t)' <=> Alive(t)
    BY <1>14, <1>d DEF IdleReturns, taskVars, prodVars, loopVars
  <2> QED
    BY <1>0, <1>14, <1>t, <2>1 DEF IdleReturns, RunState
<1>15. CASE UNCHANGED vars
  BY <1>0, <1>15, <1>t DEF vars, taskVars, prodVars, loopVars, runVars, RunState, Alive
<1> QED
  BY <1>1, <1>2, <1>3, <1>4, <1>5, <1>6, <1>7, <1>8, <1>9, <1>10, <1>11, <1>12, <1>13, <1>14, <1>15
     DEF Next

-----------------------------------------------------------------------------
(* The events' places.                                                     *)

Places == PutOnce /\ PutWaits /\ Accounted

\* The history holds what was taken and, after it, what is queued.
LEMMA HistoryType ==
    ASSUME TypeOK
    PROVE  /\ History \in Seq(Events)
           /\ Len(History) = Len(taken) + Len(queue)
           /\ Len(taken) \in Nat /\ Len(queue) \in Nat
           /\ DOMAIN History = 1..Len(History) /\ DOMAIN queue = 1..Len(queue)
           /\ \A i \in 1..Len(taken) : History[i] = taken[i]
           /\ \A i \in 1..Len(queue) : History[Len(taken) + i] = queue[i]
<1>1. taken \in Seq(Events) /\ queue \in Seq(Events)
  BY DEF TypeOK
<1>2. /\ History \in Seq(Events)
      /\ Len(History) = Len(taken) + Len(queue)
      /\ \A i \in 1..(Len(taken) + Len(queue)) :
             History[i] = IF i <= Len(taken) THEN taken[i] ELSE queue[i - Len(taken)]
  BY <1>1, ConcatProperties DEF History
<1>3. Len(taken) \in Nat /\ Len(queue) \in Nat /\ DOMAIN queue = 1..Len(queue)
  BY <1>1, LenProperties
<1>4. ASSUME NEW i \in 1..Len(queue)
      PROVE  History[Len(taken) + i] = queue[i]
  <2>1. Len(taken) + i \in 1..(Len(taken) + Len(queue)) /\ ~(Len(taken) + i <= Len(taken))
        /\ Len(taken) + i - Len(taken) = i
    BY <1>3
  <2> QED
    BY <1>2, <2>1
<1>5. \A i \in 1..Len(taken) : History[i] = taken[i]
  BY <1>2, <1>3
<1>6. DOMAIN History = 1..Len(History)
  BY <1>2, LenProperties
<1> QED
  BY <1>2, <1>3, <1>4, <1>5, <1>6

\* The queue and the loop hold parts of the history, and no event is in both.
LEMMA HeldInHistory ==
    ASSUME IInv
    PROVE  /\ Range(queue) \cup Range(current) \subseteq Range(History)
           /\ Range(queue) \cap Range(current) = {}
<1>0. TypeOK /\ LoopState /\ IsInjective(History)
  BY DEF IInv, PutOnce
<1>1. Range(queue) \subseteq Range(History)
  <2> SUFFICES ASSUME NEW i \in DOMAIN queue PROVE queue[i] \in Range(History)
    BY DEF Range
  <2>1. Len(taken) + i \in DOMAIN History /\ History[Len(taken) + i] = queue[i]
    BY <1>0, HistoryType
  <2> QED
    BY <2>1 DEF Range
<1>2. CASE loop # "dispatching"
  <2>1. current = <<>>
    BY <1>0, <1>2 DEF LoopState
  <2>2. Range(current) = {}
    BY <2>1 DEF Range
  <2> QED
    BY <1>1, <2>2
<1>3. CASE loop = "dispatching"
  <2>1. Range(current) = {current[1]} /\ current # <<>>
    BY <1>0, <1>3, Held DEF LoopState
  <2>2. taken # <<>> /\ current[1] = taken[Len(taken)] /\ taken \in Seq(Events)
    BY <1>0, <2>1 DEF LoopState, TypeOK
  <2>3. Len(taken) \in 1..Len(taken)
    BY <2>2, EmptySeq
  <2>4. Len(taken) \in DOMAIN History /\ History[Len(taken)] = current[1]
    BY <1>0, <2>2, <2>3, HistoryType
  <2>5. current[1] \in Range(History)
    BY <2>4 DEF Range
  <2>6. ASSUME NEW i \in DOMAIN queue, queue[i] = current[1]
        PROVE  FALSE
    <3>1. /\ Len(taken) + i \in DOMAIN History /\ Len(taken) + i # Len(taken)
          /\ History[Len(taken) + i] = History[Len(taken)]
      BY <1>0, <2>4, <2>6, HistoryType
    <3> QED
      BY <1>0, <2>4, <3>1 DEF IsInjective
  <2>7. Range(queue) \cap {current[1]} = {}
    BY <2>6 DEF Range
  <2> QED
    BY <1>1, <2>1, <2>5, <2>7
<1> QED
  BY <1>2, <1>3

\* The place of an event does not change, or it goes from the queue to the
\* loop, or from the loop to the end of its dispatch.
LEMMA PlacesFrame ==
    ASSUME TypeOK, Places, History' = History, Putting' = Putting, UNCHANGED <<sent, lost>>,
           Range(queue)' \cup Range(current)' \subseteq Range(queue) \cup Range(current)
    PROVE  Places'
<1>1. Emitted' = Emitted /\ \A p : Latest(p)' = Latest(p)
  BY DEF Emitted, Latest
<1>2. Range(History)' = Range(History) /\ (DOMAIN History)' = DOMAIN History
  OBVIOUS
<1>3. PutOnce'
  BY <1>1, <1>2 DEF Places, PutOnce
<1>4. PutWaits'
  BY <1>1, <1>2 DEF Places, PutWaits
<1>5. Accounted'
  BY <1>1, <1>2 DEF Places, Accounted
<1> QED
  BY <1>3, <1>4, <1>5 DEF Places

\* A put: the event was waiting or has just been emitted.
LEMMA PlacesPut ==
    ASSUME IInv, NEW p \in Producers, NEW e, e = <<p, sent'[p]>>, e \in Events, Enqueue(e),
           UNCHANGED <<taken, current, lost>>, e \notin Range(History) \cup lost,
           Emitted' = Emitted \cup {e}, Putting' = Putting \ {p},
           \A q \in Putting' : sent'[q] = sent[q],
           \A n \in 1..(sent'[p] - 1) : <<p, n>> \in Range(History) \cup lost
    PROVE  Places'
<1>0. TypeOK /\ PutOnce /\ PutWaits /\ Accounted
  BY DEF IInv
<1>1. queue \in Seq(Events) /\ taken \in Seq(Events) /\ History \in Seq(Events)
  BY <1>0, HistoryType DEF TypeOK
<1>2. History' = Append(History, e)
  BY <1>1, ConcatAppend DEF History, Enqueue
<1>3. /\ Range(History') = Range(History) \cup {e} /\ IsInjective(History')
      /\ Range(queue') = Range(queue) \cup {e}
      /\ Len(History') = Len(History) + 1
  <2>1. /\ Range(History') = Range(History) \cup {e} /\ IsInjective(History')
        /\ Len(History') = Len(History) + 1
    BY <1>0, <1>1, <1>2, AppendRange DEF PutOnce
  <2>2. queue' = Append(queue, e)
    BY DEF Enqueue
  <2>3. Range(Append(queue, e)) = Range(queue) \cup {e}
    BY <1>1, AppendRange
  <2> QED
    BY <2>1, <2>2, <2>3
<1>4. e \notin Range(current)
  BY HeldInHistory
<1>5. PutOnce'
  BY <1>0, <1>3, <1>4 DEF PutOnce
<1>6. PutWaits'
  <2> SUFFICES ASSUME NEW q \in Putting'
               PROVE  sent'[q] > 0 /\ Latest(q)' \notin (Range(History) \cup lost)'
    BY DEF PutWaits
  <2>1. q \in Putting /\ q # p /\ sent'[q] = sent[q]
    OBVIOUS
  <2>2. Latest(q)' = Latest(q) /\ Latest(q) # e
    BY <2>1 DEF Latest
  <2> QED
    BY <1>0, <1>3, <2>1, <2>2 DEF PutWaits
<1>7. ASSUME NEW f \in Emitted'
      PROVE  \/ f \in (Range(History) \cup lost)'
             \/ f[1] \in Putting' /\ f = Latest(f[1])'
  <2>1. CASE f = e
    BY <1>3, <2>1
  <2>2. CASE f \in Range(History) \cup lost
    BY <1>3, <2>2
  <2>3. CASE f \in Emitted /\ f[1] \in Putting /\ f = Latest(f[1]) /\ f[1] # p
    BY <2>3 DEF Latest
  <2>4. CASE f \in Emitted /\ f[1] = p /\ f = Latest(p)
    <3>1. f = <<p, sent[p]>> /\ sent[p] \in Nat /\ sent'[p] \in Nat
      BY <1>0, <2>4, ConstantsAssumption DEF Latest, TypeOK, Events
    <3>2. CASE sent[p] = sent'[p]
      BY <2>1, <3>1, <3>2
    <3>3. CASE sent[p] < sent'[p]
      <4>1. sent[p] \in 1..(sent'[p] - 1)
        BY <2>4, <3>1, <3>3 DEF Emitted, Events
      <4> QED
        BY <2>2, <3>1, <4>1
    <3>4. CASE sent[p] > sent'[p]
      <4>1. f \in Emitted'
        OBVIOUS
      <4>2. f[2] <= sent'[f[1]]
        BY <4>1 DEF Emitted
      <4> QED
        BY <3>1, <3>4, <4>2
    <3> QED
      BY <3>1, <3>2, <3>3, <3>4
  <2> QED
    BY <1>0, <2>1, <2>2, <2>3, <2>4 DEF Accounted
<1>8. ASSUME NEW j \in DOMAIN History', NEW n \in 1..(History'[j][2] - 1)
      PROVE  LET earlier == <<History'[j][1], n>>
             IN  earlier \in lost' \/ \E i \in 1..(j - 1) : History'[i] = earlier
  <2>0. /\ DOMAIN History' = 1..(Len(History) + 1) /\ Len(History) \in Nat
        /\ DOMAIN History = 1..Len(History)
        /\ \A i \in 1..Len(History) : History'[i] = History[i]
        /\ History'[Len(History) + 1] = e
    BY <1>1, <1>2, <1>3, AppendProperties, LenProperties
  <2>1. CASE j \in 1..Len(History)
    <3>1. \A i \in 1..(j - 1) : i \in 1..Len(History)
      BY <2>0, <2>1
    <3>2. History'[j] = History[j] /\ j \in DOMAIN History /\ n \in 1..(History[j][2] - 1)
      BY <1>8, <2>0, <2>1
    <3> DEFINE earlier == <<History[j][1], n>>
    <3>3. earlier \in lost \/ \E i \in 1..(j - 1) : History[i] = earlier
      BY <1>0, <3>2 DEF Accounted
    <3>4. earlier \in lost' \/ \E i \in 1..(j - 1) : History'[i] = earlier
      BY <2>0, <3>1, <3>3
    <3> QED
      BY <3>2, <3>4
  <2>2. CASE j = Len(History) + 1
    <3>1. History'[j] = e /\ e[1] = p /\ e[2] = sent'[p]
      BY <2>0, <2>2
    <3>2. <<p, n>> \in Range(History) \cup lost
      BY <1>8, <3>1
    <3>3. ASSUME <<p, n>> \in Range(History)
          PROVE  \E i \in 1..(j - 1) : History'[i] = <<p, n>>
      BY <2>0, <2>2, <3>3 DEF Range
    <3> QED
      BY <3>1, <3>2, <3>3
  <2> QED
    BY <2>0, <2>1, <2>2
<1>9. Accounted'
  BY <1>7, <1>8 DEF Accounted
<1> QED
  BY <1>5, <1>6, <1>9 DEF Places

\* A cancelled task drops an event that it holds.
LEMMA PlacesLost ==
    ASSUME IInv, History' = History, UNCHANGED <<sent, queue>>, NEW D, lost' = lost \cup D,
           D \subseteq Emitted, D \cap (Range(queue) \cup Range(current)') = {},
           Range(current)' \subseteq Range(current),
           Putting' \subseteq Putting,
           \A q \in Putting' : Latest(q) \notin D,
           \A q \in Putting \ Putting' : Latest(q) \in D
    PROVE  Places'
<1>0. TypeOK /\ PutOnce /\ PutWaits /\ Accounted
  BY DEF IInv
<1>1. Emitted' = Emitted /\ \A p : Latest(p)' = Latest(p)
  BY DEF Emitted, Latest
<1>2. Range(History)' = Range(History) /\ (DOMAIN History)' = DOMAIN History
  OBVIOUS
<1>3. PutOnce'
  BY <1>0, <1>1, <1>2 DEF PutOnce
<1>4. PutWaits'
  BY <1>0, <1>1, <1>2 DEF PutWaits
<1>5. Accounted'
  BY <1>0, <1>1, <1>2 DEF Accounted
<1> QED
  BY <1>3, <1>4, <1>5 DEF Places

\* What emit counts, whatever comes of the put.
LEMMA EmitCounts ==
    ASSUME IInv, NEW p \in Producers, Emit(p)
    PROVE  /\ sent[p] \in Nat /\ sent' = [sent EXCEPT ![p] = sent[p] + 1]
           /\ sent'[p] = sent[p] + 1 /\ <<p, sent'[p]>> \in Events
           /\ <<p, sent'[p]>> \notin Emitted
           /\ Emitted' = Emitted \cup {<<p, sent'[p]>>}
           /\ p \notin Putting
<1>1. /\ sent' = [sent EXCEPT ![p] = sent[p] + 1] /\ sent[p] \in 0..MaxEmits /\ sent[p] < MaxEmits
      /\ ppc[p] # "putting" /\ sent \in [Producers -> 0..MaxEmits]
  BY DEF IInv, TypeOK, Emit, Counted, MayEmit
<1>2. sent'[p] = sent[p] + 1 /\ sent[p] \in Nat /\ sent'[p] \in 1..MaxEmits
  BY <1>1, ConstantsAssumption
<1>3. <<p, sent'[p]>> \in Events /\ <<p, sent'[p]>> \notin Emitted
  BY <1>2 DEF Events, Emitted
<1>4. ASSUME NEW f \in Events
      PROVE  f \in Emitted' <=> f \in Emitted \/ f = <<p, sent'[p]>>
  <2>1. /\ f = <<f[1], f[2]>> /\ f[1] \in Producers /\ f[2] \in Nat
        /\ sent[f[1]] \in Nat /\ sent'[f[1]] \in Nat
    BY <1>1, <1>2, ConstantsAssumption DEF Events
  <2>2. CASE f[1] = p
    <3>1. f[2] <= sent'[p] <=> f[2] <= sent[p] \/ f[2] = sent'[p]
      BY <1>2, <2>1
    <3>2. f[2] = sent'[p] <=> f = <<p, sent'[p]>>
      BY <2>1, <2>2
    <3>3. (f \in Emitted' <=> f[2] <= sent'[p]) /\ (f \in Emitted <=> f[2] <= sent[p])
      BY <2>2 DEF Emitted
    <3> QED
      BY <3>1, <3>2, <3>3
  <2>3. CASE f[1] # p
    <3>1. sent'[f[1]] = sent[f[1]]
      BY <1>1, <2>1, <2>3
    <3>2. f # <<p, sent'[p]>>
      BY <2>3
    <3>3. f \in Emitted' <=> f \in Emitted
      BY <3>1 DEF Emitted
    <3> QED
      BY <3>2, <3>3
  <2> QED
    BY <2>2, <2>3
<1>5. Emitted' = Emitted \cup {<<p, sent'[p]>>}
  <2>1. Emitted \subseteq Events /\ Emitted' \subseteq Events
    BY DEF Emitted, Events
  <2> QED
    BY <1>3, <1>4, <2>1
<1>6. p \notin Putting
  BY <1>1 DEF Putting
<1> QED
  BY <1>1, <1>2, <1>3, <1>5, <1>6

\* One producer goes into its put, or leaves it.
LEMMA PuttingStep ==
    ASSUME TypeOK, NEW p \in Producers, NEW step, ppc' = [ppc EXCEPT ![p] = step]
    PROVE  /\ step = "putting" => Putting' = Putting \cup {p}
           /\ step # "putting" => Putting' = Putting \ {p}
BY DEF Putting, TypeOK

\* emit gives its event one place: the queue, or the suspended put.
LEMMA EmitPlaces ==
    ASSUME IInv, NEW p \in Producers, Emit(p)
    PROVE  Places'
<1> DEFINE e == <<p, sent'[p]>>
<1>0. /\ TypeOK /\ PutOnce /\ PutWaits /\ Accounted /\ Places
      /\ Range(History) \cup lost \subseteq Emitted
  BY DEF IInv, PutOnce, Places
<1>1. e \in Events /\ e \notin Emitted /\ Emitted' = Emitted \cup {e} /\ p \notin Putting
  BY EmitCounts
<1>2. UNCHANGED <<taken, current, lost>>
  BY DEF Emit, Counted, loopVars
<1>3. \A q \in Producers : q # p => sent'[q] = sent[q]
  BY <1>0, EmitCounts DEF TypeOK
<1>4. sent[p] \in Nat /\ sent'[p] = sent[p] + 1
  BY EmitCounts
<1>5. CASE Len(queue) < QueueMax
  <2>1. Enqueue(e) /\ Putting' = Putting \ {p}
    <3>1. PutDone(p)
      BY <1>5 DEF Emit
    <3>2. AfterEmit(p) # "putting"
      BY <1>0, AfterEmitType
    <3> QED
      BY <1>0, <3>1, <3>2, PuttingStep DEF PutDone
  <2>2. \A q \in Putting' : sent'[q] = sent[q]
    BY <1>3, <2>1 DEF Putting
  <2>3. ASSUME NEW n \in 1..(sent'[p] - 1)
        PROVE  <<p, n>> \in Range(History) \cup lost
    <3>1. <<p, n>> \in Events /\ n <= sent[p]
      BY <1>0, <1>4, ConstantsAssumption DEF Events, TypeOK
    <3>2. <<p, n>> \in Emitted
      BY <3>1 DEF Emitted
    <3> QED
      BY <1>0, <1>1, <3>2 DEF Accounted
  <2>4. e \notin Range(History) \cup lost
    BY <1>0, <1>1
  <2> QED
    BY <1>1, <1>2, <2>1, <2>2, <2>3, <2>4, PlacesPut
<1>6. CASE ~(Len(queue) < QueueMax)
  <2>1. Putting' = Putting \cup {p} /\ UNCHANGED <<queue, taken, current, lost>>
    BY <1>0, <1>2, <1>6, PuttingStep DEF Emit, queueVars
  <2>2. /\ History' = History /\ Range(History)' = Range(History)
        /\ Range(queue)' = Range(queue) /\ Range(current)' = Range(current)
        /\ (DOMAIN History)' = DOMAIN History
    BY <2>1 DEF History
  <2>3. PutOnce'
    BY <1>0, <1>1, <2>1, <2>2 DEF PutOnce
  <2>4. \A q \in Putting : q # p /\ Latest(q)' = Latest(q) /\ sent'[q] = sent[q]
    BY <1>1, <1>3 DEF Latest, Putting
  <2>5. Latest(p)' = e /\ sent'[p] > 0
    BY <1>4 DEF Latest
  <2>6. PutWaits'
    BY <1>0, <1>1, <2>1, <2>2, <2>4, <2>5 DEF PutWaits
  <2>7. ASSUME NEW f \in Emitted'
        PROVE  \/ f \in (Range(History) \cup lost)'
               \/ f[1] \in Putting' /\ f = Latest(f[1])'
    <3>1. CASE f = e
      BY <2>1, <2>5, <3>1
    <3>2. CASE f \in Emitted
      BY <1>0, <2>1, <2>2, <2>4, <3>2 DEF Accounted
    <3> QED
      BY <1>1, <3>1, <3>2
  <2>8. Accounted'
    BY <1>0, <2>1, <2>2, <2>7 DEF Accounted
  <2> QED
    BY <2>3, <2>6, <2>8 DEF Places
<1> QED
  BY <1>5, <1>6

\* A put that goes on moves its event into the queue.
LEMMA PutPlaces ==
    ASSUME IInv, NEW p \in Producers, Put(p)
    PROVE  Places'
<1> DEFINE e == <<p, sent'[p]>>
<1>0. TypeOK /\ PutWaits /\ Accounted /\ p \in Putting
  BY DEF IInv, Put, Putting
<1>1. UNCHANGED <<sent, taken, current, lost>> /\ e = Latest(p) /\ Enqueue(e)
  BY DEF Put, loopVars, Latest
<1>2. e \in Events /\ sent[p] > 0 /\ sent[p] \in 0..MaxEmits
  BY <1>0, <1>1, LatestType DEF Putting, PutWaits, TypeOK
<1>3. Emitted' = Emitted /\ e \in Emitted
  BY <1>1, <1>2, ConstantsAssumption DEF Emitted, Latest
<1>4. Putting' = Putting \ {p}
  BY <1>0, AfterEmitType, PuttingStep DEF Put
<1>5. ASSUME NEW n \in 1..(sent'[p] - 1)
      PROVE  <<p, n>> \in Range(History) \cup lost
  <2>1. <<p, n>> \in Events /\ n <= sent[p] /\ n # sent[p]
    BY <1>1, <1>2, ConstantsAssumption DEF Events
  <2>2. <<p, n>> \in Emitted /\ <<p, n>> # Latest(p)
    BY <2>1 DEF Emitted, Latest
  <2> QED
    BY <1>0, <2>2 DEF Accounted
<1>6. e \notin Range(History) \cup lost
  BY <1>0, <1>1 DEF PutWaits
<1> QED
  BY <1>1, <1>2, <1>3, <1>4, <1>5, <1>6, PlacesPut

\* A cancelled source moves the event of its put to the lost ones.
LEMMA SourcePlaces ==
    ASSUME IInv, NEW s \in Sources, SourceStep(s)
    PROVE  Places'
<1>0. TypeOK /\ PutOnce /\ PutWaits /\ Places /\ s \in Producers /\ s # Loop
  BY ConstantsAssumption DEF IInv, Places, Producers
<1>1. UNCHANGED <<sent, queue, taken, current>>
  BY DEF SourceStep, StartSource, SourceEnds, SourceCancelled, queueVars, loopVars
<1>2. /\ History' = History /\ Range(queue)' = Range(queue) /\ Range(current)' = Range(current)
  BY <1>1 DEF History
<1>3. CASE ppc[s] # "putting"
  <2>1. lost' = lost /\ \E step : step # "putting" /\ ppc' = [ppc EXCEPT ![s] = step]
    BY <1>0, <1>3, AfterEmitType DEF SourceStep, StartSource, SourceEnds, SourceCancelled
  <2>2. Putting' = Putting
    BY <1>0, <1>3, <2>1, PuttingStep DEF Putting
  <2> QED
    BY <1>0, <1>1, <1>2, <2>1, <2>2, PlacesFrame
<1>4. CASE ppc[s] = "putting"
  <2>1. s \in Putting /\ lost' = lost \cup {Latest(s)} /\ ppc' = [ppc EXCEPT ![s] = "ended"]
    BY <1>0, <1>4 DEF SourceStep, StartSource, SourceEnds, SourceCancelled, Putting
  <2>2. Putting' = Putting \ {s}
    BY <1>0, <2>1 DEF Putting, TypeOK
  <2>3. Latest(s) \in Emitted
    BY <1>0, <1>4, LatestType, ConstantsAssumption DEF Emitted, Latest, TypeOK
  <2>4. Latest(s) \notin Range(queue) \cup Range(current)
    BY <1>0, <2>1, HeldInHistory DEF PutWaits
  <2>5. \A q \in Putting' : Latest(q) \notin {Latest(s)}
    BY <2>2 DEF Latest
  <2>6. \A q \in Putting \ Putting' : Latest(q) \in {Latest(s)}
    BY <2>2
  <2>7. UNCHANGED <<sent, queue>> /\ Putting' \subseteq Putting /\ {Latest(s)} \subseteq Emitted
        /\ {Latest(s)} \cap (Range(queue) \cup Range(current)') = {}
        /\ Range(current)' \subseteq Range(current)
    BY <1>1, <1>2, <2>2, <2>3, <2>4
  <2> QED
    BY <1>2, <2>1, <2>5, <2>6, <2>7, PlacesLost
<1> QED
  BY <1>3, <1>4

\* The loop moves an event from the queue to its hand, and drops it if cancelled.
LEMMA LoopPlaces ==
    ASSUME IInv, StartLoop \/ Get \/ LoopCancelled \/ \E ok \in BOOLEAN : DispatchEnds(ok)
    PROVE  Places'
<1>0. TypeOK /\ Places /\ PutOnce /\ PutWaits /\ queue \in Seq(Events) /\ taken \in Seq(Events)
  BY DEF IInv, TypeOK, Places
<1>a. UNCHANGED <<sent, ppc>> /\ Putting' = Putting
  BY DEF StartLoop, Get, LoopCancelled, EndOfLoop, DispatchEnds, AfterDispatch, prodVars, Putting
<1>b. Range(<<>>) = {}
  BY DEF Range
<1>1. CASE StartLoop
  <2>1. UNCHANGED <<queue, taken, current, lost>>
    BY <1>1 DEF StartLoop, queueVars
  <2>2. History' = History /\ Range(queue)' = Range(queue) /\ Range(current)' = Range(current)
    BY <2>1 DEF History
  <2> QED
    BY <1>0, <1>a, <2>1, <2>2, PlacesFrame
<1>2. CASE Get
  <2>1. History' = History
    BY <1>0, <1>2, ConcatShift DEF Get, History
  <2>2. Range(queue)' \subseteq Range(queue)
    <3>1. /\ DOMAIN Tail(queue) = 1..(Len(queue) - 1) /\ DOMAIN queue = 1..Len(queue)
          /\ Len(queue) \in Nat
          /\ \A i \in DOMAIN Tail(queue) : Tail(queue)[i] = queue[i + 1]
      BY <1>0, <1>2, HeadTailProperties, LenProperties DEF Get
    <3> QED
      BY <1>2, <3>1 DEF Get, Range
  <2>3. Range(current)' \subseteq Range(queue)
    <3>1. Head(queue) = queue[1] /\ 1 \in DOMAIN queue
      BY <1>0, <1>2, LenProperties, EmptySeq DEF Get
    <3>2. current' = <<Head(queue)>> /\ DOMAIN <<Head(queue)>> = 1..1
      BY <1>2 DEF Get
    <3> QED
      BY <3>1, <3>2 DEF Range
  <2> QED
    BY <1>0, <1>2, <1>a, <2>1, <2>2, <2>3, PlacesFrame DEF Get
<1>3. ASSUME NEW ok \in BOOLEAN, DispatchEnds(ok)
      PROVE  Places'
  <2>1. UNCHANGED <<queue, taken, lost>> /\ current' = <<>>
    BY <1>3 DEF DispatchEnds, AfterDispatch
  <2>2. History' = History /\ Range(queue)' = Range(queue) /\ Range(current)' = {}
    BY <1>b, <2>1 DEF History
  <2> QED
    BY <1>0, <1>a, <2>1, <2>2, PlacesFrame
<1>4. CASE LoopCancelled
  <2>1. UNCHANGED <<queue, taken>> /\ current' = <<>> /\ lost' = lost \cup Range(current)
    BY <1>4 DEF LoopCancelled, EndOfLoop
  <2>2. History' = History /\ Range(queue)' = Range(queue) /\ Range(current)' = {}
    BY <1>b, <2>1 DEF History
  <2>3. Range(current) \subseteq Range(History) /\ Range(current) \cap Range(queue) = {}
    BY HeldInHistory
  <2>4. Range(current) \subseteq Emitted
    BY <1>0, <2>3 DEF PutOnce
  <2>5. \A q \in Putting' : Latest(q) \notin Range(current)
    BY <1>0, <1>a, <2>3 DEF PutWaits
  <2>6. \A q \in Putting \ Putting' : Latest(q) \in Range(current)
    BY <1>a
  <2>7. Range(current) \cap (Range(queue) \cup Range(current)') = {} /\ Putting' \subseteq Putting
        /\ Range(current)' \subseteq Range(current)
    BY <1>a, <2>2, <2>3
  <2> QED
    BY <1>a, <2>1, <2>2, <2>4, <2>5, <2>6, <2>7, PlacesLost
<1> QED
  BY <1>1, <1>2, <1>3, <1>4

\* run_forever finds no source in a put when it creates the sources' tasks anew.
LEMMA RunnerPutting ==
    ASSUME IInv, RunForever \/ RunUntilIdle \/ RunnerStep \/ UNCHANGED vars
    PROVE  /\ Putting' = Putting /\ Range(current)' = Range(current) /\ Range(queue)' = Range(queue)
           /\ UNCHANGED <<sent, queue, unfinished, current, taken, stats, lost>>
<1>1. CASE RunForever
  <2>1. Sources \subseteq Producers /\ \A s \in Sources : ~Alive(s) /\ s # Loop
    BY <1>1, ConstantsAssumption DEF IInv, RunState, RunForever, Producers
  <2>2. \A s \in Sources : ppc[s] # "putting" /\ ppc'[s] # "putting"
    BY <1>1, <2>1 DEF Alive, RunForever
  <2>3. Putting' = Putting
    BY <1>1, <2>1, <2>2 DEF RunForever, Putting
  <2> QED
    BY <1>1, <2>3 DEF RunForever, queueVars
<1>2. CASE RunUntilIdle
  BY <1>2 DEF RunUntilIdle, prodVars, queueVars, Putting
<1>3. CASE RunnerStep \/ UNCHANGED vars
  BY <1>3 DEF RunnerStep, Leave, RunnerStopped, RunnerBack, RunnerInterrupted, Stop, StopperStopped,
              IdleReturns, JoinEnds, vars, taskVars, prodVars, queueVars, loopVars, Putting
<1> QED
  BY <1>1, <1>2, <1>3

\* run_forever, run_until_idle and stop move no event.
LEMMA RunnerPlaces ==
    ASSUME IInv, RunForever \/ RunUntilIdle \/ RunnerStep \/ UNCHANGED vars
    PROVE  Places'
<1>1. TypeOK /\ Places
  BY DEF IInv, Places
<1>2. History' = History
  BY RunnerPutting DEF History
<1> QED
  BY <1>1, <1>2, RunnerPutting, PlacesFrame

-----------------------------------------------------------------------------
(* The counters of DaemonStats.                                            *)

\* The sets that are counted are finite.
LEMMA Finite ==
    ASSUME TypeOK
    PROVE  IsFiniteSet(Emitted) /\ IsFiniteSet(Putting) /\ IsFiniteSet(lost)
<1>1. IsFiniteSet(Producers) /\ IsFiniteSet(1..MaxEmits)
  BY ConstantsAssumption, FS_Interval
<1>2. IsFiniteSet(Events)
  BY <1>1, FS_Product DEF Events
<1>3. Emitted \in SUBSET Events /\ lost \in SUBSET Events /\ Putting \in SUBSET Producers
  BY DEF Emitted, Putting, TypeOK
<1> QED
  BY <1>1, <1>2, <1>3, FS_Subset

\* Every step keeps the sum of the counters.
LEMMA CountsStep ==
    ASSUME IInv, [Next]_vars
    PROVE  Counts'
<1>0. /\ TypeOK /\ Counts /\ IsFiniteSet(Emitted) /\ IsFiniteSet(Putting) /\ IsFiniteSet(lost)
      /\ Cardinality(Emitted) \in Nat /\ Cardinality(Putting) \in Nat /\ Cardinality(lost) \in Nat
      /\ unfinished \in Nat /\ stats.dispatched \in Nat /\ stats.failed \in Nat
  BY Finite, FS_CardinalityType DEF IInv, TypeOK
<1>e. /\ Cardinality(Emitted) = Cardinality(Putting) + unfinished
                                + stats.dispatched + stats.failed + Cardinality(lost)
  BY <1>0 DEF Counts, Received
<1>c. ASSUME Cardinality(Emitted') = Cardinality(Putting') + unfinished'
                    + stats'.dispatched + stats'.failed + Cardinality(lost')
      PROVE  Counts'
  BY <1>c DEF Counts, Received
<1>1. ASSUME NEW p \in Producers, Emit(p)
      PROVE  Counts'
  <2>1. Cardinality(Emitted') = Cardinality(Emitted) + 1 /\ p \notin Putting
    BY <1>0, <1>1, EmitCounts, FS_AddElement
  <2>2. UNCHANGED <<stats, lost>>
    BY <1>1 DEF Emit, Counted, loopVars
  <2>3. CASE Len(queue) < QueueMax
    <3>1. PutDone(p)
      BY <1>1, <2>3 DEF Emit
    <3>2. Putting' = Putting \ {p}
      BY <1>0, <3>1, AfterEmitType, PuttingStep DEF PutDone
    <3>3. Putting' = Putting /\ unfinished' = unfinished + 1
      BY <2>1, <3>1, <3>2 DEF PutDone, Enqueue
    <3> QED
      BY <1>0, <1>c, <1>e, <2>1, <2>2, <3>3
  <2>4. CASE ~(Len(queue) < QueueMax)
    <3>1. Putting' = Putting \cup {p} /\ unfinished' = unfinished
      BY <1>0, <1>1, <2>4, PuttingStep DEF Emit, queueVars
    <3>2. Cardinality(Putting') = Cardinality(Putting) + 1
      BY <1>0, <2>1, <3>1, FS_AddElement
    <3> QED
      BY <1>0, <1>c, <1>e, <2>1, <2>2, <3>1, <3>2
  <2> QED
    BY <2>3, <2>4
<1>2. ASSUME NEW p \in Producers, Put(p)
      PROVE  Counts'
  <2>1. p \in Putting /\ Putting' = Putting \ {p}
    BY <1>0, <1>2, AfterEmitType, PuttingStep DEF Put, Putting
  <2>2. Cardinality(Putting') = Cardinality(Putting) - 1
    BY <1>0, <2>1, FS_RemoveElement
  <2>3. Emitted' = Emitted /\ unfinished' = unfinished + 1 /\ UNCHANGED <<stats, lost>>
    BY <1>2 DEF Put, Enqueue, loopVars, Emitted
  <2> QED
    BY <1>0, <1>c, <1>e, <2>2, <2>3
<1>3. ASSUME NEW s \in Sources, SourceStep(s)
      PROVE  Counts'
  <2>0. s \in Producers /\ s # Loop
    BY ConstantsAssumption DEF Producers
  <2>1. Emitted' = Emitted /\ UNCHANGED <<unfinished, stats>>
    BY <1>3 DEF SourceStep, StartSource, SourceEnds, SourceCancelled, queueVars, loopVars, Emitted
  <2>2. CASE ppc[s] # "putting"
    <3>1. lost' = lost /\ \E step : step # "putting" /\ ppc' = [ppc EXCEPT ![s] = step]
      BY <1>3, <2>0, <2>2, AfterEmitType DEF SourceStep, StartSource, SourceEnds, SourceCancelled
    <3>2. Putting' = Putting
      BY <1>0, <2>0, <2>2, <3>1, PuttingStep DEF Putting
    <3> QED
      BY <1>0, <1>c, <1>e, <2>1, <3>1, <3>2
  <2>3. CASE ppc[s] = "putting"
    <3>1. s \in Putting /\ lost' = lost \cup {Latest(s)} /\ ppc' = [ppc EXCEPT ![s] = "ended"]
      BY <1>3, <2>0, <2>3 DEF SourceStep, StartSource, SourceEnds, SourceCancelled, Putting
    <3>2. Putting' = Putting \ {s}
      BY <1>0, <3>1 DEF Putting, TypeOK
    <3>3. Cardinality(Putting') = Cardinality(Putting) - 1
      BY <1>0, <3>1, <3>2, FS_RemoveElement
    <3>4. Latest(s) \notin lost
      BY <3>1 DEF IInv, PutWaits
    <3>5. Cardinality(lost') = Cardinality(lost) + 1
      BY <1>0, <3>1, <3>4, FS_AddElement
    <3> QED
      BY <1>0, <1>c, <1>e, <2>1, <3>3, <3>5
  <2> QED
    BY <2>2, <2>3
<1>4. CASE StartLoop \/ Get
  <2>1. Emitted' = Emitted /\ Putting' = Putting /\ UNCHANGED <<unfinished, stats, lost>>
    BY <1>4 DEF StartLoop, Get, prodVars, queueVars, Emitted, Putting
  <2> QED
    BY <1>c, <1>e, <2>1
<1>5. ASSUME NEW ok \in BOOLEAN, DispatchEnds(ok)
      PROVE  Counts'
  <2>1. Emitted' = Emitted /\ Putting' = Putting /\ UNCHANGED lost /\ unfinished' = unfinished - 1
    BY <1>5 DEF DispatchEnds, AfterDispatch, prodVars, Emitted, Putting
  <2>2. stats'.dispatched + stats'.failed = stats.dispatched + stats.failed + 1
        /\ stats'.dispatched \in Nat /\ stats'.failed \in Nat
    BY <1>0, <1>5 DEF DispatchEnds, AfterDispatch, TypeOK
  <2> QED
    BY <1>0, <1>c, <1>e, <2>1, <2>2
<1>6. CASE LoopCancelled
  <2>1. Emitted' = Emitted /\ Putting' = Putting /\ UNCHANGED stats
    BY <1>6 DEF LoopCancelled, EndOfLoop, prodVars, Emitted, Putting
  <2>2. CASE loop = "dispatching"
    <3>1. lost' = lost \cup {current[1]} /\ unfinished' = unfinished - 1
      BY <1>6, <2>2, Held DEF LoopCancelled, EndOfLoop
    <3>2. current[1] \notin lost
      BY <2>2, Held DEF IInv, PutOnce
    <3>3. Cardinality(lost') = Cardinality(lost) + 1
      BY <1>0, <3>1, <3>2, FS_AddElement
    <3> QED
      BY <1>0, <1>c, <1>e, <2>1, <3>1, <3>3
  <2>3. CASE loop # "dispatching"
    <3>1. current = <<>> /\ unfinished' = unfinished
      BY <1>6, <2>3 DEF IInv, LoopState, LoopCancelled, EndOfLoop
    <3>2. lost' = lost
      BY <1>6, <3>1 DEF LoopCancelled, EndOfLoop, Range
    <3> QED
      BY <1>c, <1>e, <2>1, <3>1, <3>2
  <2> QED
    BY <2>2, <2>3
<1>7. CASE RunForever \/ RunUntilIdle \/ RunnerStep \/ UNCHANGED vars
  <2>1. Emitted' = Emitted /\ Putting' = Putting /\ UNCHANGED <<unfinished, stats, lost>>
    BY <1>7, RunnerPutting DEF Emitted
  <2> QED
    BY <1>c, <1>e, <2>1
<1> QED
  BY <1>1, <1>2, <1>3, <1>4, <1>5, <1>6, <1>7 DEF Next, RunnerStep

-----------------------------------------------------------------------------
(* The theorems.                                                           *)

\* The invariant holds initially and every step keeps it.
LEMMA InitIInv == Init => IInv
<1> SUFFICES ASSUME Init PROVE IInv
  OBVIOUS
<1>0. TypeOK
  BY InitType
<1>1. /\ queue = <<>> /\ taken = <<>> /\ current = <<>> /\ lost = {} /\ loop = "off"
      /\ unfinished = 0 /\ stats.dispatched = 0 /\ stats.failed = 0
      /\ ~listed /\ ~stopSet /\ runner = "idle"
  BY DEF Init
<1>2. History = <<>> /\ DOMAIN History = {} /\ Range(<<>>) = {}
  BY <1>1 DEF History, Range
<1>3. Emitted = {} /\ Putting = {}
  BY DEF Init, Emitted, Events, Putting
<1>4. LoopState
  BY <1>1, EmptySeq DEF LoopState
<1>5. RunState
  BY <1>1, ConstantsAssumption DEF Init, RunState, Alive, Producers
<1>6. PutOnce /\ PutWaits /\ Accounted
  BY <1>1, <1>2, <1>3 DEF PutOnce, PutWaits, Accounted, IsInjective
<1>7. Counts
  BY <1>1, <1>3, FS_EmptySet DEF Counts, Received
<1> QED
  BY <1>0, <1>4, <1>5, <1>6, <1>7 DEF IInv

\* Every step keeps the inductive invariant.
LEMMA NextIInv == IInv /\ [Next]_vars => IInv'
<1> SUFFICES ASSUME IInv, [Next]_vars PROVE IInv'
  OBVIOUS
<1>1. TypeOK' /\ LoopState' /\ RunState' /\ Counts'
  BY NextType, LoopStateStep, RunStateStep, CountsStep
<1>2. Places'
  BY EmitPlaces, PutPlaces, SourcePlaces, LoopPlaces, RunnerPlaces DEF Next, RunnerStep
<1> QED
  BY <1>1, <1>2 DEF IInv, Places

\* The inductive invariant holds in every reachable state: what the daemon's
\* list of tasks, its stop flag, its queue and its counters say of each other.
THEOREM Invariance == Spec => []IInv
BY InitIInv, NextIInv, PTL DEF Spec

\* Every variable keeps its type; in particular the queue never holds more
\* than queue_maxsize events and task_done is never called once too often.
THEOREM TypeCorrect == Spec => []TypeOK
<1>1. IInv => TypeOK
  BY DEF IInv
<1> QED
  BY Invariance, <1>1, PTL

\* No event is lost without a trace, doubled, miscounted or reordered.
THEOREM EventsAreKept == Spec => []EventsKept
<1>1. IInv => EventsKept
  <2> SUFFICES ASSUME IInv PROVE EventsKept
    OBVIOUS
  <2>0. TypeOK /\ LoopState /\ PutOnce /\ Accounted /\ Counts
    BY DEF IInv
  <2>1. Conservation
    BY <2>0 DEF Conservation, LoopState, Counts
  <2>2. /\ DOMAIN taken = 1..Len(taken) /\ DOMAIN taken \subseteq DOMAIN History
        /\ Len(taken) \in Nat
        /\ \A i \in DOMAIN taken : taken[i] = History[i]
    <3>1. DOMAIN taken = 1..Len(taken)
      BY <2>0, LenProperties DEF TypeOK
    <3>2. /\ Len(taken) \in Nat /\ Len(queue) \in Nat
          /\ DOMAIN History = 1..(Len(taken) + Len(queue))
          /\ \A i \in 1..Len(taken) : History[i] = taken[i]
      BY <2>0, HistoryType
    <3> QED
      BY <3>1, <3>2
  <2>3. IsInjective(taken)
    BY <2>0, <2>2 DEF PutOnce, IsInjective
  <2>4. ASSUME NEW j \in DOMAIN taken, NEW n \in 1..(taken[j][2] - 1)
        PROVE  LET earlier == <<taken[j][1], n>> IN
               earlier \in lost \/ \E i \in 1..(j - 1) : taken[i] = earlier
    <3> DEFINE earlier == <<History[j][1], n>>
    <3>1. earlier \in lost \/ \E i \in 1..(j - 1) : History[i] = earlier
      BY <2>0, <2>2 DEF Accounted
    <3>2. \A i \in 1..(j - 1) : i \in DOMAIN taken
      BY <2>2
    <3> QED
      BY <2>2, <3>1, <3>2
  <2> QED
    BY <2>1, <2>3, <2>4 DEF EventsKept, SourceOrder
<1> QED
  BY Invariance, <1>1, PTL

\* When stop has come back no task and no event in hand is left behind.
THEOREM StopIsComplete == Spec => []StoppedMeansStopped
<1>1. IInv => StoppedMeansStopped
  BY DEF IInv, StoppedMeansStopped, RunState, LoopState, LiveTasks, Tasks, Alive
<1> QED
  BY Invariance, <1>1, PTL

\* Once stop was called on a running daemon no further event is taken: the
\* loop was cancelled with the same step that set the flag.
THEOREM NothingTaken == Spec => NothingTakenAfterStop
<1>1. IInv /\ [Next]_vars => [stopSet /\ listed => taken' = taken]_vars
  <2> SUFFICES ASSUME IInv, Next, stopSet, listed PROVE taken' = taken
    OBVIOUS
  <2>1. Loop \in cancelled \/ ~Alive(Loop)
    BY DEF IInv, RunState
  <2>2. ~Get
    BY <2>1 DEF Get, Alive
  <2> QED
    BY <2>2 DEF Next, Emit, Counted, Put, SourceStep, StartSource, SourceEnds, SourceCancelled,
                StartLoop, LoopCancelled, EndOfLoop, DispatchEnds, AfterDispatch, RunForever, Leave,
                RunnerStopped, RunnerBack, RunnerInterrupted, Stop, StopperStopped, RunUntilIdle,
                IdleReturns, JoinEnds, taskVars, loopVars
<1> QED
  BY Invariance, <1>1, PTL DEF Spec, NothingTakenAfterStop

-----------------------------------------------------------------------------
(* The daemon delivers events as EventDelivery says.                       *)

\* What the mapping shows the delivery.
Waiting == Emitted \ (Range(taken) \cup lost)
Ending  == cancelled # {}

\* From a cancellation on the loop is cancelled too, or has ended.
EndingOK == Ending => Loop \in cancelled \/ ~Alive(Loop)

\* It stays so until the daemon is run again.
LEMMA EndingStep == EndingOK /\ [Next]_vars => EndingOK'
<1> SUFFICES ASSUME EndingOK, [Next]_vars PROVE EndingOK'
  OBVIOUS
<1>1. ASSUME UNCHANGED cancelled, Alive(Loop)' => Alive(Loop) PROVE EndingOK'
  BY <1>1 DEF EndingOK, Ending
<1>2. ASSUME UNCHANGED loop PROVE Alive(Loop)' = Alive(Loop)
  BY <1>2 DEF Alive
<1>3. ASSUME NEW p \in Producers, Emit(p) \/ Put(p) PROVE EndingOK'
  BY <1>1, <1>2, <1>3 DEF Emit, Counted, Put, loopVars
<1>4. ASSUME NEW s \in Sources, SourceStep(s) PROVE EndingOK'
  BY <1>1, <1>2, <1>4 DEF SourceStep, StartSource, SourceEnds, SourceCancelled, loopVars
<1>5. CASE StartLoop \/ Get \/ \E ok \in BOOLEAN : DispatchEnds(ok)
  BY <1>5 DEF StartLoop, Get, DispatchEnds, AfterDispatch, EndingOK, Ending, Alive
<1>6. CASE LoopCancelled
  BY <1>6 DEF LoopCancelled, EndOfLoop, EndingOK, Ending
<1>7. CASE RunForever \/ RunUntilIdle
  BY <1>7 DEF RunForever, RunUntilIdle, EndingOK, Ending
<1>8. ASSUME BeginStop, UNCHANGED loop PROVE EndingOK'
  <2>1. Loop \in Tasks
    BY DEF Tasks
  <2>2. CASE listed
    BY <1>2, <1>8, <2>1, <2>2 DEF BeginStop, LiveTasks, EndingOK
  <2>3. CASE ~listed
    BY <1>1, <1>2, <1>8, <2>3 DEF BeginStop
  <2> QED
    BY <2>2, <2>3
<1>9. CASE Leave \/ Stop
  BY <1>8, <1>9 DEF Leave, Stop, taskVars, loopVars
<1>10. ASSUME NEW how, JoinEnds(how) PROVE EndingOK'
  BY <1>10 DEF JoinEnds, EndingOK
<1>11. CASE RunnerStopped \/ RunnerInterrupted \/ StopperStopped \/ IdleReturns \/ UNCHANGED vars
  BY <1>1, <1>2, <1>11 DEF RunnerStopped, RunnerBack, RunnerInterrupted, StopperStopped,
                           IdleReturns, vars, taskVars, loopVars
<1> QED
  BY <1>3, <1>4, <1>5, <1>6, <1>7, <1>9, <1>10, <1>11 DEF Next

\* What was taken is a part of the history, the event in hand the last of it.
LEMMA TakenInHistory ==
    ASSUME IInv
    PROVE  Range(taken) \subseteq Range(History)
<1>1. taken \in Seq(Events) /\ queue \in Seq(Events) /\ DOMAIN taken = 1..Len(taken)
  BY LenProperties DEF IInv, TypeOK
<1> SUFFICES ASSUME NEW i \in 1..Len(taken) PROVE taken[i] \in Range(History)
  BY <1>1 DEF Range
<1>2. i \in DOMAIN History /\ History[i] = taken[i]
  BY <1>1, HistoryType DEF IInv
<1> QED
  BY <1>2 DEF Range

\* The event that is dispatched is the last that was taken.
LEMMA LastIsTaken ==
    ASSUME IInv, loop = "dispatching"
    PROVE  current[1] \in Range(taken)
<1>1. taken # <<>> /\ current[1] = taken[Len(taken)] /\ taken \in Seq(Events)
  BY DEF IInv, LoopState, TypeOK
<1>2. Len(taken) \in 1..Len(taken)
  BY <1>1, EmptySeq
<1> QED
  BY <1>1, <1>2, LenProperties DEF Range

\* The initial states are some of the delivery.
LEMMA InitDelivery == Init => Delivery!Init /\ EndingOK
<1> SUFFICES ASSUME Init PROVE Delivery!Init /\ EndingOK
  OBVIOUS
<1>1. Emitted = {} /\ Range(<<>>) = {}
  BY DEF Init, Emitted, Events, Range
<1> QED
  BY <1>1 DEF Init, Delivery!Init, EndingOK, Ending

\* A step that moves no event, counts nothing and cancels nothing does not show.
LEMMA HiddenStep ==
    ASSUME UNCHANGED <<sent, taken, lost, current, stats>>
    PROVE  /\ UNCHANGED <<sent, Waiting, Range(current), lost, stats.dispatched, stats.failed>>
           /\ Ending' = Ending => UNCHANGED Delivery!vars
<1>1. Emitted' = Emitted
  BY DEF Emitted
<1> QED
  BY <1>1 DEF Waiting, Ending, Delivery!vars

\* emit is a receipt, whatever comes of the put.
LEMMA EmitDelivery ==
    ASSUME IInv, NEW p \in Producers, Emit(p)
    PROVE  Delivery!Next
<1> DEFINE e == <<p, sent[p] + 1>>
<1>1. sent' = [sent EXCEPT ![p] = sent[p] + 1] /\ e \notin Emitted /\ Emitted' = Emitted \cup {e}
  BY EmitCounts
<1>2. UNCHANGED <<taken, lost, current, stats, cancelled>>
  BY DEF Emit, Counted, loopVars
<1>3. Range(taken) \cup lost \subseteq Emitted
  <2>1. Range(taken) \subseteq Range(History)
    BY TakenInHistory
  <2> QED
    BY <2>1 DEF IInv, PutOnce
<1>4. Waiting' = Waiting \cup {e}
  BY <1>1, <1>2, <1>3 DEF Waiting
<1>5. Delivery!Receive(p)
  BY <1>1, <1>2, <1>4 DEF Delivery!Receive, Waiting
<1> QED
  BY <1>5 DEF Delivery!Next

\* A source that is cancelled in its put drops the event; nothing else of it shows.
LEMMA SourceDelivery ==
    ASSUME IInv, NEW s \in Sources, SourceStep(s)
    PROVE  Delivery!Next \/ UNCHANGED Delivery!vars
<1>1. UNCHANGED <<sent, taken, current, stats, cancelled>> /\ s \in Producers
  BY DEF SourceStep, StartSource, SourceEnds, SourceCancelled, loopVars, Producers
<1>2. CASE UNCHANGED lost
  BY <1>1, <1>2, HiddenStep DEF Ending
<1>3. CASE SourceCancelled(s) /\ ppc[s] = "putting"
  <2> DEFINE e == Latest(s)
  <2>1. lost' = lost \cup {e} /\ Ending /\ s \in Putting
    BY <1>1, <1>3 DEF SourceCancelled, Ending, Putting
  <2>2. e \notin Range(History) \cup lost /\ e \in Emitted
    BY <1>1, <1>3, <2>1, LatestType, ConstantsAssumption
       DEF IInv, TypeOK, PutWaits, Emitted, Latest
  <2>3. e \notin Range(taken) /\ e \notin Range(current)
    BY <2>2, TakenInHistory, HeldInHistory
  <2>4. e \in Waiting /\ Waiting' = Waiting \ {e}
    <3>1. Emitted' = Emitted
      BY <1>1 DEF Emitted
    <3> QED
      BY <1>1, <2>1, <2>2, <2>3, <3>1 DEF Waiting
  <2>5. Range(current)' = Range(current) \ {e}
    BY <1>1, <2>3
  <2> HIDE DEF e
  <2>6. Delivery!Drop(e)
    BY <1>1, <2>1, <2>4, <2>5 DEF Delivery!Drop, Waiting, Ending
  <2> QED
    BY <2>4, <2>6 DEF Delivery!Next, Waiting
<1> QED
  BY <1>2, <1>3 DEF SourceStep, StartSource, SourceEnds, SourceCancelled

\* The head of the queue is the first event of its producer that still waits.
LEMMA GetDelivery ==
    ASSUME IInv, EndingOK, Get
    PROVE  Delivery!Next
<1> DEFINE e == Head(queue)
<1>0. TypeOK /\ LoopState /\ PutOnce /\ Accounted /\ queue \in Seq(Events) /\ taken \in Seq(Events)
  BY DEF IInv, TypeOK
<1>1. /\ current' = <<e>> /\ taken' = Append(taken, e) /\ e = queue[1] /\ 1 \in DOMAIN queue
      /\ UNCHANGED <<sent, stats, cancelled, lost>>
  BY <1>0, LenProperties, EmptySeq DEF Get, prodVars
<1>2. ~Ending
  BY DEF EndingOK, Get, Alive
<1>3. current = <<>> /\ Range(current) = {}
  <2>1. current = <<>>
    BY <1>0 DEF LoopState, Get
  <2> QED
    BY <2>1 DEF Range
<1>4. Range(current)' = {e}
  BY <1>1 DEF Range
<1>5. e \in Events /\ Range(taken)' = Range(taken) \cup {e}
  BY <1>0, <1>1, AppendRange
<1>6. e \in Emitted /\ e \notin lost
  BY <1>0, <1>1, HeldInHistory DEF PutOnce, Range
<1>7. Len(taken) + 1 \in DOMAIN History /\ History[Len(taken) + 1] = e
  BY <1>0, <1>1, HistoryType
<1>8. /\ Len(taken) \in Nat /\ DOMAIN taken = 1..Len(taken)
      /\ \A i \in 1..Len(taken) : History[i] = taken[i]
  BY <1>0, HistoryType, LenProperties
<1>9. e \notin Range(taken)
  <2> SUFFICES ASSUME NEW i \in 1..Len(taken), taken[i] = e PROVE FALSE
    BY <1>8 DEF Range
  <2>1. i # Len(taken) + 1 /\ i \in DOMAIN History /\ History[i] = History[Len(taken) + 1]
    BY <1>0, <1>7, <1>8, HistoryType
  <2> QED
    BY <1>0, <1>7, <2>1 DEF PutOnce, IsInjective
<1>10. ASSUME NEW n \in 1..(e[2] - 1) PROVE <<e[1], n>> \notin Waiting
  <2>1. <<e[1], n>> \in lost \/ \E i \in 1..((Len(taken) + 1) - 1) : History[i] = <<e[1], n>>
    BY <1>0, <1>7 DEF Accounted
  <2>2. <<e[1], n>> \in lost \/ \E i \in 1..Len(taken) : taken[i] = <<e[1], n>>
    BY <1>8, <2>1
  <2> QED
    BY <1>8, <2>2 DEF Waiting, Range
<1>11. e \in Waiting /\ Waiting' = Waiting \ {e}
  <2>1. Emitted' = Emitted
    BY <1>1 DEF Emitted
  <2> QED
    BY <1>1, <1>5, <1>6, <1>9, <2>1 DEF Waiting
<1> HIDE DEF e
<1>12. Delivery!Take(e)
  BY <1>1, <1>2, <1>3, <1>4, <1>10, <1>11 DEF Delivery!Take, Waiting, Ending
<1> QED
  BY <1>11, <1>12 DEF Delivery!Next, Waiting

\* A dispatch is finished, or dropped when its loop is cancelled.
LEMMA LoopDelivery ==
    ASSUME IInv, EndingOK, StartLoop \/ LoopCancelled \/ \E ok \in BOOLEAN : DispatchEnds(ok)
    PROVE  Delivery!Next \/ UNCHANGED Delivery!vars
<1>1. Range(<<>>) = {}
  BY DEF Range
<1>2. CASE StartLoop
  BY <1>2, HiddenStep DEF StartLoop, prodVars, Ending
<1>3. ASSUME NEW ok \in BOOLEAN, DispatchEnds(ok) PROVE Delivery!Next
  <2>1. /\ UNCHANGED <<sent, taken, cancelled, lost>> /\ current' = <<>>
        /\ loop = "dispatching" /\ Loop \notin cancelled
        /\ stats' = IF ok THEN [stats EXCEPT !.dispatched = @ + 1]
                          ELSE [stats EXCEPT !.failed = @ + 1]
    BY <1>3 DEF DispatchEnds, AfterDispatch, prodVars
  <2>2. ~Ending /\ Waiting' = Waiting
    BY <2>1 DEF EndingOK, Alive, Ending, Waiting, Emitted
  <2>3. Range(current) # {} /\ Range(current)' = {}
    BY <1>1, <2>1, Held
  <2>4. /\ stats'.dispatched = IF ok THEN stats.dispatched + 1 ELSE stats.dispatched
        /\ stats'.failed = IF ok THEN stats.failed ELSE stats.failed + 1
    BY <2>1 DEF IInv, TypeOK
  <2>5. Delivery!Finish(ok)
    BY <2>1, <2>2, <2>3, <2>4 DEF Delivery!Finish, Waiting, Ending
  <2> QED
    BY <2>5 DEF Delivery!Next
<1>4. CASE LoopCancelled
  <2>1. /\ UNCHANGED <<sent, taken, cancelled, stats>> /\ current' = <<>>
        /\ lost' = lost \cup Range(current) /\ Loop \in cancelled
    BY <1>4 DEF LoopCancelled, EndOfLoop, prodVars
  <2>2. CASE loop # "dispatching"
    <3>1. current = <<>>
      BY <2>2 DEF IInv, LoopState
    <3> QED
      BY <1>1, <2>1, <3>1, HiddenStep DEF Ending
  <2>3. CASE loop = "dispatching"
    <3> DEFINE e == current[1]
    <3>1. Range(current) = {e}
      BY <2>3, Held
    <3>2. e \in Range(taken)
      BY <2>3, LastIsTaken
    <3>3. /\ Waiting' = Waiting \ {e} /\ lost' = lost \cup {e}
          /\ Range(current)' = Range(current) \ {e}
      BY <1>1, <2>1, <3>1, <3>2 DEF Waiting, Emitted
    <3> HIDE DEF e
    <3>4. Delivery!Drop(e)
      BY <2>1, <3>1, <3>3 DEF Delivery!Drop, Waiting
    <3> QED
      BY <3>1, <3>4 DEF Delivery!Next
  <2> QED
    BY <2>2, <2>3
<1> QED
  BY <1>2, <1>3, <1>4

\* A run begins with nothing in hand, and a stop only cancels.
LEMMA RunnerDelivery ==
    ASSUME IInv, RunForever \/ RunUntilIdle \/ RunnerStep \/ UNCHANGED vars
    PROVE  Delivery!Next \/ UNCHANGED Delivery!vars
<1>1. UNCHANGED <<sent, taken, lost, current, stats>>
  BY RunnerPutting
<1>2. CASE RunForever \/ RunUntilIdle
  <2>1. ~Alive(Loop)
    BY <1>2 DEF IInv, RunState, RunForever, RunUntilIdle
  <2>2. current = <<>>
    BY <2>1 DEF IInv, LoopState, Alive
  <2>3. Range(current) = {} /\ ~Ending'
    BY <1>2, <2>2 DEF Range, RunForever, RunUntilIdle, Ending
  <2>4. Delivery!Begin
    BY <1>1, <2>3, HiddenStep DEF Delivery!Begin, Waiting, Ending
  <2> QED
    BY <2>4 DEF Delivery!Next
<1>3. CASE RunnerStep \/ UNCHANGED vars
  <2>1. Ending => Ending'
    BY <1>3 DEF RunnerStep, Leave, BeginStop, RunnerStopped, RunnerBack, RunnerInterrupted, Stop,
                StopperStopped, IdleReturns, JoinEnds, vars, Ending
  <2>2. CASE Ending'
    <3>1. Delivery!End
      BY <1>1, <2>2, HiddenStep DEF Delivery!End, Waiting, Ending
    <3> QED
      BY <3>1 DEF Delivery!Next
  <2>3. CASE ~Ending'
    BY <1>1, <2>1, <2>3, HiddenStep DEF Ending
  <2> QED
    BY <2>2, <2>3
<1> QED
  BY <1>2, <1>3

\* Whatever the interleaving of tasks, puts and stops, the daemon delivers as
\* EventDelivery says: one event at a time, each once and in its producer's order,
\* and none dropped but because of a stop.
THEOREM DeliveryKept == Spec => KeepsDelivery
<1>1. IInv /\ EndingOK /\ [Next]_vars => [Delivery!Next]_Delivery!vars
  <2> SUFFICES ASSUME IInv, EndingOK, [Next]_vars
               PROVE  Delivery!Next \/ UNCHANGED Delivery!vars
    OBVIOUS
  <2>1. ASSUME NEW p \in Producers, Put(p) PROVE UNCHANGED Delivery!vars
    BY <2>1, HiddenStep DEF Put, loopVars, Ending
  <2> QED
    BY <2>1, EmitDelivery, SourceDelivery, GetDelivery, LoopDelivery, RunnerDelivery
       DEF Next, RunnerStep
<1> QED
  BY <1>1, InitDelivery, EndingStep, Invariance, PTL DEF Spec, KeepsDelivery, Delivery!Spec

=============================================================================
