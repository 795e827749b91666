---------------------------- MODULE EventDaemon ----------------------------
(***************************************************************************)
(* agent_hive.runtime.daemon: EventDaemon with its bounded queue, the      *)
(* tasks of its event sources and of its dispatch loop, run_forever,       *)
(* run_until_idle and stop, and the counters of DaemonStats.               *)
(*                                                                         *)
(* Everything runs on one asyncio loop: a step is what a task does between *)
(* two awaits that really suspend.  Task.cancel only takes a note          *)
(* (cancelled); the task sees it when it is scheduled next.                *)
(*                                                                         *)
(* An event is <<p, n>>, the n-th one that producer p emitted.  Left out:  *)
(* the contents of events, last_error, and what runtime.dispatch does with *)
(* an event (HiveDispatch models that).                                    *)
(***************************************************************************)
EXTENDS Naturals, Sequences, FiniteSets, Functions

CONSTANTS
    Sources,     \* the daemon's event sources: tasks that run_forever starts
    Callers,     \* other code that calls emit, whether the daemon runs or not
    Scheduled,   \* the sources that are ScheduledEventSources
    RunOnStart,  \* the scheduled ones that emit before their first interval
    QueueMax,    \* queue_maxsize
    MayHang,     \* the events whose dispatch need not come to an end
    MaxEmits,    \* bound: events one producer emits
    MaxEvents,   \* bound: events all of them emit
    MaxRuns,     \* bound: calls of run_forever and run_until_idle
    MaxStops     \* bound: calls of stop by other code, and cancels of run_forever

Producers == Sources \cup Callers
Loop      == "dispatch-loop"
Tasks     == Sources \cup {Loop}

ASSUME ConstantsAssumption ==
    /\ IsFiniteSet(Producers)
    /\ Sources \cap Callers = {}
    /\ RunOnStart \subseteq Scheduled
    /\ Scheduled \subseteq Sources
    /\ Loop \notin Producers
    /\ QueueMax \in Nat \ {0}
    /\ MayHang \subseteq Producers \X Nat
    /\ MaxEmits \in Nat /\ MaxEvents \in Nat /\ MaxRuns \in Nat /\ MaxStops \in Nat

VARIABLES
    sent,       \* how many events each producer has handed to emit
    ppc,        \* where each producer stands
    srcStop,    \* the sources' own stop flags, which nothing ever clears
    queue,      \* the asyncio.Queue
    unfinished, \* its count of unfinished tasks, which join waits for
    loop,       \* where _dispatch_loop stands
    current,    \* the event it has taken out of the queue, as a 0/1 sequence
    cancelled,  \* the tasks that Task.cancel was called on
    stopSet,    \* the daemon's _stop event
    listed,     \* self._tasks holds the tasks of the last run_forever
    runner,     \* where run_forever or run_until_idle stands
    stopper,    \* where another caller of stop stands
    runs, stops,
    stats,      \* DaemonStats: dispatched and failed (received is the sum of sent)
    taken,      \* history: the events taken from the queue, in order
    lost        \* history: the events a cancelled task dropped

prodVars  == <<sent, ppc>>
queueVars == <<queue, unfinished>>
loopVars  == <<loop, current, taken, stats>>
runVars   == <<srcStop, stopSet, listed, runner, stopper, runs, stops>>
taskVars  == <<prodVars, queueVars, loopVars, lost>>
vars      == <<taskVars, runVars, cancelled>>

-----------------------------------------------------------------------------
Events   == Producers \X (1..MaxEmits)
Latest(p) == <<p, sent[p]>>
Emitted  == {e \in Events : e[2] <= sent[e[1]]}
Received == Cardinality(Emitted)

\* "created": the task exists and has not run yet; "waiting": in the source's
\* own wait (interval, line of input, poll), or a caller that may emit;
\* "putting": suspended in Queue.put.
ProducerSteps == {"off", "created", "waiting", "putting", "ended"}
LoopSteps     == {"off", "created", "getting", "dispatching", "ended"}

Alive(t) == IF t = Loop THEN loop \in {"created", "getting", "dispatching"}
                        ELSE ppc[t] \in {"created", "waiting", "putting"}
LiveTasks == {t \in Tasks : Alive(t)}

Init ==
    /\ sent       = [p \in Producers |-> 0]
    /\ ppc        = [p \in Producers |-> IF p \in Callers THEN "waiting" ELSE "off"]
    /\ srcStop    = [s \in Sources |-> FALSE]
    /\ queue      = <<>>
    /\ unfinished = 0
    /\ loop       = "off"
    /\ current    = <<>>
    /\ cancelled  = {}
    /\ stopSet    = FALSE
    /\ listed     = FALSE
    /\ runner     = "idle"
    /\ stopper    = "idle"
    /\ runs       = 0
    /\ stops      = 0
    /\ stats      = [dispatched |-> 0, failed |-> 0]
    /\ taken      = <<>>
    /\ lost       = {}

-----------------------------------------------------------------------------
(* Producers.  A source tests its stop flag after each event, without an   *)
(* await in between.                                                       *)
AfterEmit(p) == IF p \in Sources /\ srcStop[p] THEN "ended" ELSE "waiting"

Enqueue(e) ==
    /\ queue' = Append(queue, e)
    /\ unfinished' = unfinished + 1

MayEmit(p) ==
    /\ sent[p] < MaxEmits /\ Received < MaxEvents
    /\ p \notin cancelled
    /\ \/ ppc[p] = "waiting"
       \/ ppc[p] = "created" /\ p \in RunOnStart

\* What emit does besides the put: it counts the event first.
Counted(p) ==
    /\ MayEmit(p)
    /\ sent' = [sent EXCEPT ![p] = @ + 1]
    /\ UNCHANGED <<loopVars, runVars, cancelled, lost>>

PutDone(p) == Enqueue(<<p, sent'[p]>>) /\ ppc' = [ppc EXCEPT ![p] = AfterEmit(p)]

\* MUTANT: an event that finds the queue full is dropped without a word.
EmitNoWait(p) ==
    /\ Counted(p)
    /\ IF Len(queue) < QueueMax THEN PutDone(p)
       ELSE ppc' = [ppc EXCEPT ![p] = AfterEmit(p)] /\ UNCHANGED queueVars

\* MUTANT: the queue has no bound.
EmitUnbounded(p) == Counted(p) /\ PutDone(p)

\* put suspends when the queue is full.
Emit(p) ==
    /\ Counted(p)
    /\ IF Len(queue) < QueueMax THEN PutDone(p)
       ELSE ppc' = [ppc EXCEPT ![p] = "putting"] /\ UNCHANGED queueVars

\* A suspended put goes on when it finds room; an emit that comes first may
\* have taken the place again.
Put(p) ==
    /\ ppc[p] = "putting"
    /\ p \notin cancelled
    /\ Len(queue) < QueueMax
    /\ Enqueue(Latest(p))
    /\ ppc' = [ppc EXCEPT ![p] = AfterEmit(p)]
    /\ UNCHANGED <<sent, loopVars, runVars, cancelled, lost>>

StartSource(s) ==
    /\ ppc[s] = "created"
    /\ s \notin RunOnStart \cup cancelled
    /\ ppc' = [ppc EXCEPT ![s] = AfterEmit(s)]
    /\ UNCHANGED <<sent, queueVars, loopVars, runVars, cancelled, lost>>

\* A scheduled source ends when it wakes up for its stop flag; the others also
\* at the end of input, or by an exception (a line that is not an event, a
\* provider that does not load), which ends in the task, where nobody looks.
SourceEnds(s) ==
    /\ ppc[s] = "waiting"
    /\ s \notin cancelled
    /\ srcStop[s] \/ s \notin Scheduled
    /\ ppc' = [ppc EXCEPT ![s] = "ended"]
    /\ UNCHANGED <<sent, queueVars, loopVars, runVars, cancelled, lost>>

\* CancelledError in a source; a suspended put gives its event up.
SourceCancelled(s) ==
    /\ s \in cancelled
    /\ Alive(s)
    /\ ppc' = [ppc EXCEPT ![s] = "ended"]
    /\ lost' = IF ppc[s] = "putting" THEN lost \cup {Latest(s)} ELSE lost
    /\ UNCHANGED <<sent, queueVars, loopVars, runVars, cancelled>>

-----------------------------------------------------------------------------
(* _dispatch_loop, run by run_forever or by run_until_idle.                *)
LoopTest == IF stopSet THEN "ended" ELSE "getting"

StartLoop ==
    /\ loop = "created"
    /\ Loop \notin cancelled
    /\ loop' = LoopTest
    /\ UNCHANGED <<prodVars, queueVars, current, taken, stats, runVars, cancelled, lost>>

Get ==
    /\ loop = "getting"
    /\ Loop \notin cancelled
    /\ queue # <<>>
    /\ current' = <<Head(queue)>>
    /\ taken' = Append(taken, Head(queue))
    /\ queue' = Tail(queue)
    /\ loop' = "dispatching"
    /\ UNCHANGED <<prodVars, unfinished, stats, runVars, cancelled, lost>>

\* A dispatch is over: it is counted, task_done is called, and the loop goes on.
AfterDispatch(ok, done, step) ==
    /\ loop = "dispatching"
    /\ Loop \notin cancelled
    /\ stats' = IF ok THEN [stats EXCEPT !.dispatched = @ + 1]
                      ELSE [stats EXCEPT !.failed = @ + 1]
    /\ current' = <<>>
    /\ unfinished' = IF done THEN unfinished - 1 ELSE unfinished
    /\ loop' = step
    /\ UNCHANGED <<prodVars, queue, taken, runVars, cancelled, lost>>

\* MUTANT: the exception of a dispatch leaves the loop.
DispatchEndsLeaves(ok) == AfterDispatch(ok, TRUE, IF ok THEN LoopTest ELSE "ended")

\* MUTANT: task_done only for a dispatch that went well.
DispatchEndsUndone(ok) == AfterDispatch(ok, ok, LoopTest)

\* runtime.dispatch returns or raises an Exception.
DispatchEnds(ok) == AfterDispatch(ok, TRUE, LoopTest)

EndOfLoop(step) ==
    /\ Loop \in cancelled
    /\ Alive(Loop)
    /\ loop' = step
    /\ unfinished' = IF loop = "dispatching" THEN unfinished - 1 ELSE unfinished
    /\ lost' = lost \cup Range(current)
    /\ current' = <<>>
    /\ UNCHANGED <<prodVars, queue, taken, stats, runVars>>

\* MUTANT: the loop takes a cancellation for a failed dispatch.
LoopCancelledGoesOn ==
    /\ EndOfLoop(IF loop = "dispatching" THEN "getting" ELSE "ended")
    /\ cancelled' = cancelled \ {Loop}

\* CancelledError is no Exception: it is not counted, but task_done is called.
LoopCancelled == EndOfLoop("ended") /\ UNCHANGED cancelled

-----------------------------------------------------------------------------
(* stop, by run_forever's finally or by somebody else.  Up to the gather   *)
(* nothing suspends: the sources' stop only sets their flags.              *)

\* MUTANT: the tasks are told to stop by flag only.
BeginStopGently ==
    /\ stopSet' = TRUE
    /\ srcStop' = [s \in Sources |-> TRUE]
    /\ UNCHANGED cancelled

BeginStop ==
    /\ stopSet' = TRUE
    /\ srcStop' = [s \in Sources |-> TRUE]
    /\ cancelled' = IF listed THEN cancelled \cup LiveTasks ELSE cancelled

\* self._tasks may have been cleared by the other stop in the meantime; the
\* tasks gathered are those of the last run in any case.
Gathered == LiveTasks = {}

\* The program starts the daemon again only when no stop is under way and one
\* has come back since the last run: the code does not check it.
RunForever ==
    /\ runner = "idle" /\ stopper = "idle" /\ ~listed
    /\ runs < MaxRuns
    /\ runs' = runs + 1
    /\ stopSet' = FALSE
    /\ ppc' = [p \in Producers |-> IF p \in Sources THEN "created" ELSE ppc[p]]
    /\ loop' = "created"
    /\ cancelled' = {}
    /\ listed' = TRUE
    /\ runner' = "serving"
    /\ UNCHANGED <<sent, queueVars, current, taken, stats, srcStop, stopper, stops, lost>>

\* The wait for _stop ends because it is set, or because the task that runs
\* run_forever is cancelled (Ctrl-C); either way stop is called.
Leave ==
    /\ runner = "serving"
    /\ \/ stopSet /\ UNCHANGED stops
       \/ stops < MaxStops /\ stops' = stops + 1
    /\ BeginStop
    /\ runner' = "stopping"
    /\ UNCHANGED <<taskVars, listed, stopper, runs>>

\* stop comes back to run_forever, which returns.
RunnerBack ==
    /\ runner = "stopping"
    /\ listed' = FALSE
    /\ runner' = "idle"
    /\ UNCHANGED <<taskVars, srcStop, stopSet, stopper, runs, stops, cancelled>>

\* MUTANT: stop comes back without waiting for the tasks.
RunnerStopsAtOnce == RunnerBack

RunnerStopped == Gathered /\ RunnerBack

\* A second cancel interrupts the gather: run_forever raises, with the tasks
\* still winding up and still listed.  It may come before the tasks have seen
\* theirs.
RunnerInterrupted ==
    /\ runner = "stopping"
    /\ stops < MaxStops
    /\ stops' = stops + 1
    /\ runner' = "idle"
    /\ UNCHANGED <<taskVars, srcStop, stopSet, listed, stopper, runs, cancelled>>

Stop ==
    /\ stopper = "idle"
    /\ stops < MaxStops
    /\ stops' = stops + 1
    /\ BeginStop
    /\ stopper' = IF listed THEN "stopping" ELSE "idle"
    /\ UNCHANGED <<taskVars, listed, runner, runs>>

StopperStopped ==
    /\ stopper = "stopping"
    /\ Gathered
    /\ listed' = FALSE
    /\ stopper' = "idle"
    /\ UNCHANGED <<taskVars, srcStop, stopSet, runner, runs, stops, cancelled>>

-----------------------------------------------------------------------------
(* run_until_idle: a dispatch loop of its own until join or the timeout.   *)
RunUntilIdle ==
    /\ runner = "idle" /\ stopper = "idle" /\ ~listed
    /\ runs < MaxRuns
    /\ runs' = runs + 1
    /\ loop' = "created"
    /\ cancelled' = {}
    /\ runner' = "joining"
    /\ UNCHANGED <<prodVars, queueVars, current, taken, stats, srcStop, stopSet, listed,
                   stopper, stops, lost>>

JoinEnds(how) ==
    /\ runner = "joining"
    /\ how = "joined" => unfinished = 0
    /\ stopSet' = TRUE
    /\ cancelled' = cancelled \cup {Loop}
    /\ runner' = how
    /\ UNCHANGED <<taskVars, srcStop, listed, stopper, runs, stops>>

IdleReturns ==
    /\ runner \in {"joined", "timed_out"}
    /\ ~Alive(Loop)
    /\ runner' = "idle"
    /\ UNCHANGED <<taskVars, srcStop, stopSet, listed, stopper, runs, stops, cancelled>>

-----------------------------------------------------------------------------
SourceStep(s) == StartSource(s) \/ SourceEnds(s) \/ SourceCancelled(s)

Next ==
    \/ \E p \in Producers : Emit(p) \/ Put(p)
    \/ \E s \in Sources : SourceStep(s)
    \/ StartLoop \/ Get \/ LoopCancelled
    \/ \E ok \in BOOLEAN : DispatchEnds(ok)
    \/ RunForever \/ Leave \/ RunnerStopped \/ RunnerInterrupted
    \/ Stop \/ StopperStopped
    \/ RunUntilIdle \/ IdleReturns
    \/ \E how \in {"joined", "timed_out"} : JoinEnds(how)

Spec == Init /\ [][Next]_vars

(* Fairness.  The event loop schedules every task that is ready.  Nobody    *)
(* has to emit, and the daemon is run and stopped at will.  A dispatch      *)
(* comes to an end, because the calls it makes have timeouts, except that   *)
(* one of an event in MayHang may not.                                      *)
DispatchOver ==
    /\ loop = "dispatching" /\ current[1] \notin MayHang
    /\ \E ok \in BOOLEAN : DispatchEnds(ok)

FairLoop ==
    /\ WF_vars(StartLoop) /\ WF_vars(Get) /\ WF_vars(LoopCancelled)
    /\ WF_vars(DispatchOver)

FairTasks ==
    /\ \A p \in Producers : WF_vars(Put(p))
    /\ \A s \in Sources : WF_vars(SourceCancelled(s))
    /\ WF_vars(runner = "serving" /\ stopSet /\ Leave)
    /\ WF_vars(RunnerStopped) /\ WF_vars(StopperStopped) /\ WF_vars(IdleReturns)

FairSpec == Spec /\ FairLoop /\ FairTasks

-----------------------------------------------------------------------------
TypeOK ==
    /\ sent \in [Producers -> 0..MaxEmits]
    /\ ppc \in [Producers -> ProducerSteps]
    /\ srcStop \in [Sources -> BOOLEAN]
    /\ queue \in Seq(Events) /\ Len(queue) <= QueueMax
    /\ unfinished \in Nat
    /\ loop \in LoopSteps
    /\ current \in Seq(Events) /\ Len(current) <= 1
    /\ cancelled \subseteq Tasks
    /\ stopSet \in BOOLEAN /\ listed \in BOOLEAN
    /\ runner \in {"idle", "serving", "stopping", "joining", "joined", "timed_out"}
    /\ stopper \in {"idle", "stopping"}
    /\ runs \in 0..MaxRuns /\ stops \in 0..MaxStops
    /\ stats \in [dispatched : Nat, failed : Nat]
    /\ taken \in Seq(Events)
    /\ lost \subseteq Events

\* The events that wait in a suspended put.
Putting == {p \in Producers : ppc[p] = "putting"}

\* DaemonStats adds up: an event that was received is waiting in a put, in the
\* queue, with the loop, counted as dispatched or failed, or was dropped by a
\* cancellation; and join waits for exactly what is queued or with the loop.
Conservation ==
    /\ Received = Cardinality(Putting) + unfinished
                  + stats.dispatched + stats.failed + Cardinality(lost)
    /\ unfinished = Len(queue) + Len(current)

\* The events of one producer are taken in the order it emitted them, none
\* twice, and none is passed over but one that a cancellation dropped.
SourceOrder ==
    /\ IsInjective(taken)
    /\ \A j \in DOMAIN taken : \A n \in 1..(taken[j][2] - 1) :
           LET earlier == <<taken[j][1], n>> IN
           earlier \in lost \/ \E i \in 1..(j - 1) : taken[i] = earlier

\* No event is lost without a trace, doubled, miscounted or reordered, whether it
\* waits for room in the queue, is overtaken there or cancelled.
EventsKept == Conservation /\ SourceOrder

\* When stop has come back and nothing was started since, no task of the
\* daemon is left behind and no event is in somebody's hands.
StoppedMeansStopped ==
    ~listed /\ runner \in {"idle", "stopping"} => LiveTasks = {} /\ current = <<>>

\* Once stop has been called on a running daemon no further event is taken.
NothingTakenAfterStop == [][stopSet /\ listed => taken' = taken]_vars

\* stop comes back, and so does run_until_idle once it has stopped waiting,
\* although the dispatch they cancel might hang for ever.
StopReturns ==
    /\ stopper = "stopping" ~> stopper = "idle"
    /\ runner \in {"stopping", "joined", "timed_out"} ~> runner = "idle"

InHand(p, n) ==
    \/ ppc[p] = "putting" /\ sent[p] = n
    \/ \E i \in DOMAIN queue : queue[i] = <<p, n>>

\* daemon.py:115, "daemon must keep serving later events": while the daemon
\* serves, an event handed to emit is taken, whatever the dispatches of others
\* raise, also when it had to wait for room in the queue, unless the daemon is
\* told to stop or the one dispatch loop is held up by a dispatch that hangs.
EveryEventTaken ==
    \A p \in Producers, n \in 1..MaxEmits :
        InHand(p, n) /\ runner = "serving" ~>
            \/ ~InHand(p, n)
            \/ stopSet \/ runner = "stopping"
            \/ loop = "dispatching" /\ current[1] \in MayHang

=============================================================================
